---- MODULE Spec2Model ----
(***************************************************************************)
(* Port scanner of the `mode` terminal application                         *)
(* (src/src/features/scanner.rs): the wizard state machine of Scanner,     *)
(* its input validation (validate_target, parse_port_range) and its scan   *)
(* engine (execute_scan, perform_scan, resolve_target, save_results);      *)
(* and the alias utilities validate_alias_name (src/src/utils/shell.rs),   *)
(* check_duplicate_alias, create_backup and append_alias                   *)
(* (src/src/utils/file_ops.rs); the main menu (src/src/menu), the          *)
(* application and its key handlers (src/src/app.rs), the process, alias   *)
(* and bookmark managers and the usage viewer (src/src/features), and the  *)
(* event thread with the main loop (src/src/event.rs, src/src/main.rs).    *)
(*                                                                         *)
(* Text is a sequence of one-character strings: "1-3" is <<"1","-","3">>.  *)
(* Option<T> is a sequence of length 0 (None) or 1 (Some(x)).              *)
(* Result<T> is a record with an ok field.                                 *)
(***************************************************************************)
EXTENDS Integers, Sequences, FiniteSets, TLC

VARIABLES
    state,      \* Scanner.state : ScannerState (a record with a tag)
    pc,         \* position inside execute_scan/perform_scan ("idle" outside)
    scan,       \* locals of execute_scan/perform_scan while it runs
    net,        \* what the scanner did to the network: lookups, connects
    files,      \* report files in the working directory: name -> content
    clock,      \* wall clock in whole seconds (chrono::Local::now())
    home,       \* the RC file of the shell and its backups
    call,       \* the last call of an alias utility and what it returned
    app,        \* App: state, menu_state, should_quit, error_message, exit_command
    procs,      \* the kill actions executed, in order
    events      \* the event thread, its channel and the main loop

vars == <<state, pc, scan, net, files, clock, home, call, app, procs, events>>

(***************************************************************************)
(* Bounds of the model                                                     *)
(***************************************************************************)
\* longest text typed into the target field
MaxTargetLen == 3

\* longest text typed into the port-range field
MaxRangeLen == 3

\* most comma-separated tokens of a port-range expression handed to the parser
MaxTokens == 2

\* last clock second
MaxClock == 1

\* largest u16
U16Max == 65535

\* largest u8 (an IPv4 octet)
U8Max == 255

(***************************************************************************)
(* Text helpers (str::split, str::trim, str::contains, u16::from_str)      *)
(***************************************************************************)
None == <<>>
Some(x) == <<x>>

Range(s) == {s[i] : i \in 1..Len(s)}

DigitChars == <<"0", "1", "2", "3", "4", "5", "6", "7", "8", "9">>
Digits == Range(DigitChars)
DigitVal(c) == (CHOOSE i \in 1..10 : DigitChars[i] = c) - 1

HexLetters == {"a", "b", "c", "d", "e", "f", "A", "B", "C", "D", "E", "F"}
Letters == HexLetters \cup {"g", "m", "o", "x", "z"}

\* a letter outside ASCII, named by its code point: U+00E9 is alphabetic and
\* takes two bytes in UTF-8
NonAscii == {"U+00E9"}

\* char::len_utf8
Utf8Len(c) == IF c \in NonAscii THEN 2 ELSE 1

\* str::len: the length of the text in bytes
ByteLen(s) == Len(s) + Cardinality({i \in 1..Len(s) : Utf8Len(s[i]) = 2})

\* char::is_whitespace
IsWhitespace(c) == c \in {" ", "\t", "\n", "\r"}

\* char::is_ascii_digit
IsAsciiDigit(c) == c \in Digits

\* char::is_alphanumeric
IsAlphanumeric(c) == c \in Digits \cup Letters \cup NonAscii

\* index of the first occurrence of c in s, 0 if none
IndexOf(s, c) ==
    IF \E i \in 1..Len(s) : s[i] = c
    THEN CHOOSE i \in 1..Len(s) : s[i] = c /\ \A j \in 1..(i - 1) : s[j] # c
    ELSE 0

\* str::contains(char)
Contains(s, c) == \E i \in 1..Len(s) : s[i] = c

\* str::split(char): the pieces between the separators; "" gives one empty piece
RECURSIVE Split(_, _)
Split(s, sep) ==
    LET i == IndexOf(s, sep)
    IN  IF i = 0 THEN <<s>>
        ELSE <<SubSeq(s, 1, i - 1)>> \o Split(SubSeq(s, i + 1, Len(s)), sep)

\* str::trim: strips leading and trailing whitespace
Trim(s) ==
    LET keep == {i \in 1..Len(s) : ~IsWhitespace(s[i])}
    IN  IF keep = {} THEN <<>>
        ELSE SubSeq(s, CHOOSE i \in keep : \A j \in keep : i <= j,
                       CHOOSE i \in keep : \A j \in keep : i >= j)

\* the checked accumulation of from_str_radix: None on overflow of the limit
RECURSIVE AccDigits(_, _, _, _)
AccDigits(ds, i, acc, limit) ==
    IF i > Len(ds) THEN [ok |-> TRUE, val |-> acc]
    ELSE LET v == acc * 10 + DigitVal(ds[i])
         IN  IF v > limit THEN [ok |-> FALSE, val |-> 0]
             ELSE AccDigits(ds, i + 1, v, limit)

\* ParseU16 without the overflow check of u16
ParseU16_wide(s) ==
    LET ds == IF Len(s) > 0 /\ s[1] = "+" THEN Tail(s) ELSE s
    IN  IF Len(ds) = 0 \/ \E i \in 1..Len(ds) : ~IsAsciiDigit(ds[i])
        THEN [ok |-> FALSE, val |-> 0]
        ELSE AccDigits(ds, 1, 0, 99 * U16Max)

\* <u16 as FromStr>::from_str: an optional '+', then one or more ASCII digits,
\* value at most 65535
ParseU16(s) ==
    LET ds == IF Len(s) > 0 /\ s[1] = "+" THEN Tail(s) ELSE s
    IN  IF Len(ds) = 0 \/ \E i \in 1..Len(ds) : ~IsAsciiDigit(ds[i])
        THEN [ok |-> FALSE, val |-> 0]
        ELSE AccDigits(ds, 1, 0, U16Max)

\* Vec::contains
VecContains(v, x) == \E i \in 1..Len(v) : v[i] = x

\* Vec<u16>::sort
SortPorts(v) == SortSeq(v, LAMBDA a, b : a < b)

(***************************************************************************)
(* Scanner::parse_port_range                                               *)
(***************************************************************************)
Err(text, arg) == [ok |-> FALSE, ports |-> <<>>, text |-> text, arg |-> arg]
Ok(ports) == [ok |-> TRUE, ports |-> ports, text |-> "", arg |-> <<>>]

\* for port in start..=end { if !ports.contains(&port) { ports.push(port) } }
RECURSIVE PushRange(_, _, _)
PushRange(ports, port, end) ==
    IF port > end THEN ports
    ELSE PushRange(IF VecContains(ports, port) THEN ports ELSE Append(ports, port),
                   port + 1, end)

\* one iteration of the loop over input.split(','): the ports after the token,
\* or the error the token returns
ParsePart(ports, rawpart) ==
    LET part == Trim(rawpart)
    IN  IF Contains(part, "-")
        THEN LET range_parts == Split(part, "-")
             IN  IF Len(range_parts) # 2
                 THEN Err("Invalid port range format: ", part)
                 ELSE LET start == ParseU16(Trim(range_parts[1]))
                          end == ParseU16(Trim(range_parts[2]))
                      IN  IF ~start.ok THEN Err("Invalid port number: ", range_parts[1])
                          ELSE IF ~end.ok THEN Err("Invalid port number: ", range_parts[2])
                          ELSE IF start.val > end.val
                          THEN Err("Start port must be less than or equal to end port", <<>>)
                          ELSE IF start.val = 0
                          THEN Err("Port numbers must be between 1 and 65535", <<>>)
                          ELSE Ok(PushRange(ports, start.val, end.val))
        ELSE LET port == ParseU16(part)
             IN  IF ~port.ok THEN Err("Invalid port number: ", part)
                 ELSE IF port.val = 0
                 THEN Err("Port numbers must be between 1 and 65535", <<>>)
                 ELSE Ok(IF VecContains(ports, port.val) THEN ports
                         ELSE Append(ports, port.val))

RECURSIVE ParseParts(_, _, _)
ParseParts(parts, i, ports) ==
    IF i > Len(parts) THEN Ok(ports)
    ELSE LET r == ParsePart(ports, parts[i])
         IN  IF r.ok THEN ParseParts(parts, i + 1, r.ports) ELSE r

\* parse_port_range without the final sort
parse_port_range_unsorted(input) ==
    LET r == ParseParts(Split(input, ","), 1, <<>>)
    IN  IF ~r.ok THEN r
        ELSE IF r.ports = <<>> THEN Err("No valid ports specified", <<>>)
        ELSE Ok(r.ports)

parse_port_range(input) ==
    LET r == ParseParts(Split(input, ","), 1, <<>>)
    IN  IF ~r.ok THEN r
        ELSE IF r.ports = <<>> THEN Err("No valid ports specified", <<>>)
        ELSE Ok(SortPorts(r.ports))

(***************************************************************************)
(* str::parse::<IpAddr>() (std::net parser): dotted-quad IPv4, or IPv6     *)
(* with one optional "::" and an optional embedded IPv4 tail               *)
(***************************************************************************)
\* read_number(10, Some(3), false) of an octet: 1 to 3 digits, no leading
\* zero before another digit, value at most 255
IsOctet(p) ==
    /\ Len(p) \in 1..3
    /\ \A i \in 1..Len(p) : IsAsciiDigit(p[i])
    /\ (Len(p) > 1 => p[1] # "0")
    /\ AccDigits(p, 1, 0, U8Max).ok

ParseIpv4(s) ==
    LET ps == Split(s, ".")
    IN  Len(ps) = 4 /\ \A i \in 1..4 : IsOctet(ps[i])

\* read_number(16, Some(4), true) of a group: 1 to 4 hex digits
IsHexGroup(p) ==
    /\ Len(p) \in 1..4
    /\ \A i \in 1..Len(p) : p[i] \in Digits \cup HexLetters

\* the groups of one side of an address: none for the empty text
Ipv6Groups(txt) == IF txt = <<>> THEN <<>> ELSE Split(txt, ":")

\* read_groups: hex groups, the last of which may be an embedded IPv4
\* address standing for two groups; 0 - 1 = -1 stands for "does not parse"
Ipv6GroupCount(gs, v4tail) ==
    LET n == Len(gs)
    IN  IF n = 0 THEN 0
        ELSE IF \A i \in 1..n : IsHexGroup(gs[i]) THEN n
        ELSE IF v4tail /\ ParseIpv4(gs[n]) /\ \A i \in 1..(n - 1) : IsHexGroup(gs[i])
        THEN n + 1
        ELSE 0 - 1

ParseIpv6(s) ==
    LET dc == {i \in 1..(Len(s) - 1) : s[i] = ":" /\ s[i + 1] = ":"}
    IN  IF dc = {}
        THEN Ipv6GroupCount(Ipv6Groups(s), TRUE) = 8
        ELSE LET at == CHOOSE i \in dc : \A j \in dc : i <= j
                 head == Ipv6GroupCount(Ipv6Groups(SubSeq(s, 1, at - 1)), FALSE)
                 tail == Ipv6GroupCount(Ipv6Groups(SubSeq(s, at + 2, Len(s))), TRUE)
             IN  head >= 0 /\ tail >= 0 /\ head + tail <= 7

\* target.parse::<IpAddr>().is_ok()
IsIpAddr(s) == ParseIpv4(s) \/ ParseIpv6(s)

(***************************************************************************)
(* Scanner::validate_target                                                *)
(***************************************************************************)
MaxHostnameLen == 253
MaxLabelLen == 63

\* the first label that fails a rule decides the message
RECURSIVE ValidateLabels(_, _)
ValidateLabels(parts, i) ==
    IF i > Len(parts) THEN [ok |-> TRUE, text |-> ""]
    ELSE LET part == parts[i]
         IN  IF part = <<>> \/ ByteLen(part) > MaxLabelLen
             THEN [ok |-> FALSE, text |-> "Invalid hostname format"]
             ELSE IF \E k \in 1..Len(part) : ~(IsAlphanumeric(part[k]) \/ part[k] = "-")
             THEN [ok |-> FALSE,
                   text |-> "Invalid hostname format (only alphanumeric and hyphens allowed)"]
             ELSE IF part[1] = "-" \/ part[Len(part)] = "-"
             THEN [ok |-> FALSE,
                   text |-> "Invalid hostname format (cannot start or end with hyphen)"]
             ELSE ValidateLabels(parts, i + 1)

validate_target(target) ==
    IF target = <<>> THEN [ok |-> FALSE, text |-> "Target cannot be empty"]
    ELSE IF IsIpAddr(target) THEN [ok |-> TRUE, text |-> ""]
    ELSE IF ByteLen(target) > MaxHostnameLen
    THEN [ok |-> FALSE, text |-> "Hostname too long (max 253 characters)"]
    ELSE ValidateLabels(Split(target, "."), 1)

(***************************************************************************)
(* ScanType, ScanOption, ScannerState                                      *)
(***************************************************************************)
\* ScanType::all()
ScanTypeAll == <<"QuickScan", "StandardScan", "FullScan", "CustomRange">>

\* ScanOption::all()
ScanOptionAll == <<"ServiceDetection", "SaveToFile">>

QuickScanPorts ==
    <<21, 22, 23, 25, 53, 80, 110, 143, 443, 3306, 3389, 5432, 8080, 8443>>

StandardScanPorts ==
    <<21, 22, 23, 25, 53, 80, 110, 111, 135, 139, 143, 443, 445, 993, 995, 1723,
      3306, 3389, 5900, 8080, 8443, 20, 69, 123, 137, 138, 161, 162, 389, 636,
      989, 990, 1025, 1026, 1027, 1433, 1434, 1521, 2049, 2082, 2083, 2086, 2087,
      2095, 2096, 3128, 5432, 5800, 5901, 6000, 6001, 8000, 8008, 8009, 8081,
      8082, 8083, 8084, 8085, 8086, 8087, 8088, 8089, 8090, 8180, 8181, 8888,
      9090, 9091, 9100, 9999, 10000, 32768, 32769, 32770, 32771, 32772, 32773,
      32774, 32775, 32776, 32777, 49152, 49153, 49154, 49155, 49156, 49157, 50000,
      50001, 50002, 50003>>

\* FullScanPorts from the exclusive range 1..65535, which stops at 65534
FullScanPorts_exclusive == SubSeq([i \in 1..U16Max |-> i], 1, U16Max - 1)

\* (1..=65535).collect(): the range collected into a vector
FullScanPorts == SubSeq([i \in 1..U16Max |-> i], 1, U16Max)

\* ScanType::get_ports
get_ports(scan_type) ==
    CASE scan_type = "QuickScan" -> QuickScanPorts
      [] scan_type = "StandardScan" -> StandardScanPorts
      [] scan_type = "FullScan" -> FullScanPorts
      [] scan_type = "CustomRange" -> <<>>

SelectingScanType(selected) == [tag |-> "SelectingScanType", selected |-> selected]
EnteringTarget(scan_type, input) ==
    [tag |-> "EnteringTarget", scan_type |-> scan_type, input |-> input]
EnteringPortRange(target, input) ==
    [tag |-> "EnteringPortRange", target |-> target, input |-> input]
SelectingOptions(scan_type, target, selected, service_detection, save_to_file, custom_ports) ==
    [tag |-> "SelectingOptions", scan_type |-> scan_type, target |-> target,
     selected |-> selected, service_detection |-> service_detection,
     save_to_file |-> save_to_file, custom_ports |-> custom_ports]
Confirming(scan_type, target, service_detection, save_to_file, custom_ports) ==
    [tag |-> "Confirming", scan_type |-> scan_type, target |-> target,
     service_detection |-> service_detection, save_to_file |-> save_to_file,
     custom_ports |-> custom_ports]
Scanning(scan_type, target, progress, total, service_detection, save_to_file, custom_ports) ==
    [tag |-> "Scanning", scan_type |-> scan_type, target |-> target,
     progress |-> progress, total |-> total,
     service_detection |-> service_detection, save_to_file |-> save_to_file,
     custom_ports |-> custom_ports]
ViewingResults(target, open_ports, scroll) ==
    [tag |-> "ViewingResults", target |-> target, open_ports |-> open_ports,
     scroll |-> scroll]

\* a message is a fixed text followed by the formatted argument, if any;
\* prefix is the text execute_scan puts before an inner error
Message(prefix, text, arg) == [prefix |-> prefix, text |-> text, arg |-> arg]
Success(message) == [tag |-> "Success", message |-> message]
Error(message) == [tag |-> "Error", message |-> message]

\* PortInfo { port, service, state }
PortInfo(port, service, st) == [port |-> port, service |-> service, state |-> st]

(***************************************************************************)
(* The operations of Scanner that only read and write Scanner.state, as    *)
(* functions from the state before the call to the state after it          *)
(***************************************************************************)
\* Scanner::new
new == SelectingScanType(0)

\* usize::saturating_sub
SaturatingSub(a, b) == IF a >= b THEN a - b ELSE 0

previous(s) ==
    CASE s.tag = "SelectingScanType" ->
            [s EXCEPT !.selected =
                IF s.selected = 0 THEN Len(ScanTypeAll) - 1 ELSE s.selected - 1]
      [] s.tag = "SelectingOptions" ->
            [s EXCEPT !.selected =
                IF s.selected = 0 THEN Len(ScanOptionAll) - 1 ELSE s.selected - 1]
      [] s.tag = "ViewingResults" ->
            IF s.scroll > 0 THEN [s EXCEPT !.scroll = s.scroll - 1] ELSE s
      [] OTHER -> s

\* next without the wrap-around of the cursor
next_no_wrap(s) ==
    CASE s.tag = "SelectingScanType" -> [s EXCEPT !.selected = s.selected + 1]
      [] s.tag = "SelectingOptions" -> [s EXCEPT !.selected = s.selected + 1]
      [] s.tag = "ViewingResults" ->
            IF s.scroll < SaturatingSub(Len(s.open_ports), 1)
            THEN [s EXCEPT !.scroll = s.scroll + 1] ELSE s
      [] OTHER -> s

next(s) ==
    CASE s.tag = "SelectingScanType" ->
            [s EXCEPT !.selected = (s.selected + 1) % Len(ScanTypeAll)]
      [] s.tag = "SelectingOptions" ->
            [s EXCEPT !.selected = (s.selected + 1) % Len(ScanOptionAll)]
      [] s.tag = "ViewingResults" ->
            IF s.scroll < SaturatingSub(Len(s.open_ports), 1)
            THEN [s EXCEPT !.scroll = s.scroll + 1] ELSE s
      [] OTHER -> s

confirm_scan_type(s) ==
    IF s.tag = "SelectingScanType"
    THEN EnteringTarget(ScanTypeAll[s.selected + 1], <<>>)
    ELSE s

handle_char(s, c) ==
    IF s.tag = "EnteringTarget" THEN [s EXCEPT !.input = Append(s.input, c)] ELSE s

\* String::pop
Pop(str) == IF str = <<>> THEN str ELSE SubSeq(str, 1, Len(str) - 1)

handle_backspace(s) ==
    IF s.tag = "EnteringTarget" THEN [s EXCEPT !.input = Pop(s.input)] ELSE s

\* advance_to_options without the branch for CustomRange
advance_to_options_no_range(s) ==
    IF s.tag = "EnteringTarget"
    THEN LET target == Trim(s.input)
             v == validate_target(target)
         IN  IF ~v.ok THEN Error(Message("", v.text, <<>>))
             ELSE SelectingOptions(s.scan_type, target, 0, FALSE, FALSE, None)
    ELSE s

\* advance_to_options without the validation of the target
advance_to_options_unvalidated(s) ==
    IF s.tag = "EnteringTarget"
    THEN LET target == Trim(s.input)
         IN  IF s.scan_type = "CustomRange"
             THEN EnteringPortRange(target, <<>>)
             ELSE SelectingOptions(s.scan_type, target, 0, FALSE, FALSE, None)
    ELSE s

advance_to_options(s) ==
    IF s.tag = "EnteringTarget"
    THEN LET target == Trim(s.input)
             v == validate_target(target)
         IN  IF ~v.ok THEN Error(Message("", v.text, <<>>))
             ELSE IF s.scan_type = "CustomRange"
             THEN EnteringPortRange(target, <<>>)
             ELSE SelectingOptions(s.scan_type, target, 0, FALSE, FALSE, None)
    ELSE s

\* advance_from_port_range that takes the ports of any parse
advance_from_port_range_unchecked(s) ==
    IF s.tag = "EnteringPortRange"
    THEN SelectingOptions("CustomRange", s.target, 0, FALSE, FALSE,
                          Some(parse_port_range(s.input).ports))
    ELSE s

advance_from_port_range(s) ==
    IF s.tag = "EnteringPortRange"
    THEN LET r == parse_port_range(s.input)
         IN  IF r.ok
             THEN SelectingOptions("CustomRange", s.target, 0, FALSE, FALSE,
                                   Some(r.ports))
             ELSE Error(Message("", r.text, r.arg))
    ELSE s

handle_port_range_char(s, c) ==
    IF s.tag = "EnteringPortRange"
       /\ (IsAsciiDigit(c) \/ c = "," \/ c = "-" \/ c = " ")
    THEN [s EXCEPT !.input = Append(s.input, c)]
    ELSE s

handle_port_range_backspace(s) ==
    IF s.tag = "EnteringPortRange" THEN [s EXCEPT !.input = Pop(s.input)] ELSE s

\* toggle_option that switches the option on instead of flipping it
toggle_option_set(s) ==
    IF s.tag = "SelectingOptions"
    THEN LET option == ScanOptionAll[s.selected + 1]
         IN  IF option = "ServiceDetection"
             THEN [s EXCEPT !.service_detection = TRUE]
             ELSE [s EXCEPT !.save_to_file = TRUE]
    ELSE s

toggle_option(s) ==
    IF s.tag = "SelectingOptions"
    THEN LET option == ScanOptionAll[s.selected + 1]
         IN  IF option = "ServiceDetection"
             THEN [s EXCEPT !.service_detection = ~s.service_detection]
             ELSE [s EXCEPT !.save_to_file = ~s.save_to_file]
    ELSE s

\* advance_to_confirmation with the two options in each other's place
advance_to_confirmation_swapped(s) ==
    IF s.tag = "SelectingOptions"
    THEN Confirming(s.scan_type, s.target, s.save_to_file, s.service_detection,
                    s.custom_ports)
    ELSE s

advance_to_confirmation(s) ==
    IF s.tag = "SelectingOptions"
    THEN Confirming(s.scan_type, s.target, s.service_detection, s.save_to_file,
                    s.custom_ports)
    ELSE s

\* ScanType::all().iter().position(|st| st == scan_type).unwrap_or(0)
PositionOf(scan_type) ==
    IF \E i \in 1..Len(ScanTypeAll) : ScanTypeAll[i] = scan_type
    THEN (CHOOSE i \in 1..Len(ScanTypeAll) : ScanTypeAll[i] = scan_type) - 1
    ELSE 0

\* go_back that empties the target field when it leaves EnteringPortRange
go_back_empty_target(s) ==
    CASE s.tag = "EnteringTarget" -> SelectingScanType(PositionOf(s.scan_type))
      [] s.tag = "EnteringPortRange" -> EnteringTarget("CustomRange", <<>>)
      [] s.tag = "SelectingOptions" ->
            IF s.scan_type = "CustomRange"
            THEN EnteringPortRange(s.target, <<>>)
            ELSE EnteringTarget(s.scan_type, <<>>)
      [] s.tag = "Confirming" ->
            SelectingOptions(s.scan_type, s.target, 0, s.service_detection,
                             s.save_to_file, s.custom_ports)
      [] OTHER -> s

\* go_back that keeps the target text when it leaves SelectingOptions
go_back_keep_target(s) ==
    CASE s.tag = "EnteringTarget" -> SelectingScanType(PositionOf(s.scan_type))
      [] s.tag = "EnteringPortRange" -> EnteringTarget("CustomRange", s.target)
      [] s.tag = "SelectingOptions" ->
            IF s.scan_type = "CustomRange"
            THEN EnteringPortRange(s.target, <<>>)
            ELSE EnteringTarget(s.scan_type, s.target)
      [] s.tag = "Confirming" ->
            SelectingOptions(s.scan_type, s.target, 0, s.service_detection,
                             s.save_to_file, s.custom_ports)
      [] OTHER -> s

\* go_back that also leaves the Error state
go_back_from_error(s) ==
    CASE s.tag = "EnteringTarget" -> SelectingScanType(PositionOf(s.scan_type))
      [] s.tag = "EnteringPortRange" -> EnteringTarget("CustomRange", s.target)
      [] s.tag = "SelectingOptions" ->
            IF s.scan_type = "CustomRange"
            THEN EnteringPortRange(s.target, <<>>)
            ELSE EnteringTarget(s.scan_type, <<>>)
      [] s.tag = "Confirming" ->
            SelectingOptions(s.scan_type, s.target, 0, s.service_detection,
                             s.save_to_file, s.custom_ports)
      [] s.tag = "Error" -> SelectingScanType(0)
      [] OTHER -> s

go_back_cancel_scan(s) ==
    CASE s.tag = "EnteringTarget" -> SelectingScanType(PositionOf(s.scan_type))
      [] s.tag = "EnteringPortRange" -> EnteringTarget("CustomRange", s.target)
      [] s.tag = "SelectingOptions" ->
            IF s.scan_type = "CustomRange"
            THEN EnteringPortRange(s.target, <<>>)
            ELSE EnteringTarget(s.scan_type, <<>>)
      [] s.tag = "Confirming" ->
            SelectingOptions(s.scan_type, s.target, 0, s.service_detection,
                             s.save_to_file, s.custom_ports)
      [] s.tag = "Scanning" ->
            Confirming(s.scan_type, s.target, s.service_detection, s.save_to_file,
                       s.custom_ports)
      [] OTHER -> s

\* go_back that puts the cursor on the first scan type
go_back_first_type(s) ==
    CASE s.tag = "EnteringTarget" -> SelectingScanType(0)
      [] s.tag = "EnteringPortRange" -> EnteringTarget("CustomRange", s.target)
      [] s.tag = "SelectingOptions" ->
            IF s.scan_type = "CustomRange"
            THEN EnteringPortRange(s.target, <<>>)
            ELSE EnteringTarget(s.scan_type, <<>>)
      [] s.tag = "Confirming" ->
            SelectingOptions(s.scan_type, s.target, 0, s.service_detection,
                             s.save_to_file, s.custom_ports)
      [] OTHER -> s

go_back(s) ==
    CASE s.tag = "EnteringTarget" -> SelectingScanType(PositionOf(s.scan_type))
      [] s.tag = "EnteringPortRange" -> EnteringTarget("CustomRange", s.target)
      [] s.tag = "SelectingOptions" ->
            IF s.scan_type = "CustomRange"
            THEN EnteringPortRange(s.target, <<>>)
            ELSE EnteringTarget(s.scan_type, <<>>)
      [] s.tag = "Confirming" ->
            SelectingOptions(s.scan_type, s.target, 0, s.service_detection,
                             s.save_to_file, s.custom_ports)
      [] OTHER -> s

is_done(s) == s.tag \in {"Success", "Error"}

(***************************************************************************)
(* The environment of a scan: the resolver, the network, the disk          *)
(***************************************************************************)
Text4 == <<"1", "0", ".", "0", ".", "0", ".", "1">>
Text6 == <<":", ":", "1">>

\* what "<target>:80".to_socket_addrs() can give for a host name: an error,
\* no address, or addresses of which the first is an IPv4 or an IPv6 address
LookupOutcomes ==
    {[ok |-> FALSE, addrs |-> <<>>],
     [ok |-> TRUE, addrs |-> <<>>],
     [ok |-> TRUE, addrs |-> <<Text4>>],
     [ok |-> TRUE, addrs |-> <<Text6, Text4>>]}

\* the ports on which a listener may accept a connection within the timeout;
\* every other port refuses or times out
Listeners == {2, 20, 22}

\* what the disk can do to save_results: write the report, fail in
\* File::create, or fail in a writeln! after the file was created
DiskOutcomes == {"written", "create_failed", "write_failed"}

\* the locals of execute_scan when it is not running
NoScan == [entry |-> new, ports |-> <<>>, idx |-> 0, ip |-> None, open_ports |-> <<>>,
           reach |-> {}, result |-> "none", err |-> Message("", "", <<>>)]
NoNet == [lookups |-> 0, connects |-> 0, last |-> 0]

(***************************************************************************)
(* Scanner::resolve_target, detect_service, save_results                   *)
(***************************************************************************)
\* resolve_target that looks every target up, IP literals included
resolve_target_always_lookup(target, lookup) ==
    IF ~lookup.ok
    THEN [ok |-> FALSE, ip |-> <<>>, looked |-> TRUE,
          err |-> Message("", "Failed to resolve target ", target)]
    ELSE IF lookup.addrs = <<>>
    THEN [ok |-> FALSE, ip |-> <<>>, looked |-> TRUE,
          err |-> Message("", "Failed to resolve hostname: ", target)]
    ELSE [ok |-> TRUE, ip |-> Head(lookup.addrs), looked |-> TRUE,
          err |-> Message("", "", <<>>)]

\* an IpAddr is kept as the text its Display prints: for a literal the
\* target itself (Display may only re-compress zeros; it adds no bracket)
resolve_target(target, lookup) ==
    IF IsIpAddr(target)
    THEN [ok |-> TRUE, ip |-> target, looked |-> FALSE, err |-> Message("", "", <<>>)]
    ELSE IF ~lookup.ok
    THEN [ok |-> FALSE, ip |-> <<>>, looked |-> TRUE,
          err |-> Message("", "Failed to resolve target ", target)]
    ELSE IF lookup.addrs = <<>>
    THEN [ok |-> FALSE, ip |-> <<>>, looked |-> TRUE,
          err |-> Message("", "Failed to resolve hostname: ", target)]
    ELSE [ok |-> TRUE, ip |-> Head(lookup.addrs), looked |-> TRUE,
          err |-> Message("", "", <<>>)]

\* format!("{}:{}", ip, port).parse::<SocketAddr>().is_ok(): the text is
\* "<ip>:<port>"; the parser reads an IPv4 address, or an IPv6 address inside
\* '[' and ']', then ':' and the port, which a printed u16 always is
SocketAddrParses(ip, port) ==
    /\ port \in 0..U16Max
    /\ \/ ParseIpv4(ip)
       \/ /\ Len(ip) >= 2 /\ ip[1] = "[" /\ ip[Len(ip)] = "]"
          /\ ParseIpv6(SubSeq(ip, 2, Len(ip) - 1))

detect_service(port) ==
    CASE port = 20 -> Some("FTP Data")
      [] port = 21 -> Some("FTP")
      [] port = 22 -> Some("SSH")
      [] port = 23 -> Some("Telnet")
      [] port = 25 -> Some("SMTP")
      [] port = 53 -> Some("DNS")
      [] port = 80 -> Some("HTTP")
      [] port = 110 -> Some("POP3")
      [] port = 143 -> Some("IMAP")
      [] port = 443 -> Some("HTTPS")
      [] port = 445 -> Some("SMB")
      [] port = 993 -> Some("IMAPS")
      [] port = 995 -> Some("POP3S")
      [] port = 1433 -> Some("MSSQL")
      [] port = 1521 -> Some("Oracle")
      [] port = 3306 -> Some("MySQL")
      [] port = 3389 -> Some("RDP")
      [] port = 5432 -> Some("PostgreSQL")
      [] port = 5900 -> Some("VNC")
      [] port = 6379 -> Some("Redis")
      [] port = 8080 -> Some("HTTP Proxy")
      [] port = 8443 -> Some("HTTPS Alt")
      [] port = 27017 -> Some("MongoDB")
      [] OTHER -> None

\* OpenPort that looks the service up whether or not detection is on
OpenPort_detect_always(port, service_detection) ==
    PortInfo(port, detect_service(port), "Open")

\* the PortInfo pushed for a port whose connection succeeded
OpenPort(port, service_detection) ==
    PortInfo(port, IF service_detection THEN detect_service(port) ELSE None, "Open")

\* str::replace(".", "_")
ReplaceDots(str) == [i \in 1..Len(str) |-> IF str[i] = "." THEN "_" ELSE str[i]]

\* format!("scan_{}_{}.txt", target.replace(".", "_"), timestamp)
ReportName(target, now) == [target |-> ReplaceDots(target), timestamp |-> now]

\* Option::as_deref().unwrap_or("unknown")
ServiceLabel(service) == IF service = None THEN "unknown" ELSE service[1]

\* the rows render_scanner shows for ViewingResults: port, state, service
DisplayRows(open_ports) ==
    [i \in 1..Len(open_ports) |->
        [port |-> open_ports[i].port,
         state |-> CASE open_ports[i].state = "Open" -> "OPEN"
                     [] open_ports[i].state = "Closed" -> "CLOSED"
                     [] open_ports[i].state = "Filtered" -> "FILTERED",
         service |-> ServiceLabel(open_ports[i].service)]]

\* the lines save_results writes after the header
ReportLines(results) ==
    [i \in 1..Len(results) |->
        [port |-> results[i].port, state |-> "open",
         service |-> ServiceLabel(results[i].service)]]

\* save_results: File::create truncates a file of the same name; a failing
\* writeln! leaves the created file with what was written before it
save_results(fs, target, results, disk, now) ==
    LET name == ReportName(target, now)
        report == [name |-> name, target |-> target, time |-> now,
                   count |-> Len(results), lines |-> ReportLines(results),
                   complete |-> disk = "written"]
    IN  IF disk = "create_failed" THEN [ok |-> FALSE, files |-> fs]
        ELSE [ok |-> disk = "written",
              files |-> {f \in fs : f.name # name} \cup
                        {IF disk = "written" THEN report
                         ELSE [report EXCEPT !.count = 0, !.lines = <<>>]}]

(***************************************************************************)
(* Scanner::execute_scan and perform_scan as one call                      *)
(***************************************************************************)
\* custom_ports.clone().unwrap_or_else(|| scan_type.get_ports())
\* get_confirmation_data: the port count shown before the scan is confirmed
port_count(s) ==
    IF s.custom_ports # None THEN Len(s.custom_ports[1])
    ELSE Len(get_ports(s.scan_type))

\* ScanType::name
scan_type_name(scan_type) ==
    CASE scan_type = "QuickScan" -> "Quick Scan"
      [] scan_type = "StandardScan" -> "Standard Scan"
      [] scan_type = "FullScan" -> "Full Scan"
      [] scan_type = "CustomRange" -> "Custom Range"

\* the rows of the confirmation screen; None outside Confirming
get_confirmation_data(s) ==
    IF s.tag = "Confirming"
    THEN Some([scan_type |-> scan_type_name(s.scan_type), target |-> s.target,
               ports |-> port_count(s),
               service_detection |-> IF s.service_detection THEN "Enabled"
                                     ELSE "Disabled",
               save_to_file |-> IF s.save_to_file THEN "Yes" ELSE "No"])
    ELSE None

PortsOf(s) == IF s.custom_ports # None THEN s.custom_ports[1] ELSE get_ports(s.scan_type)

\* the k-th smallest element of a set of numbers
Nth(S, k) == CHOOSE i \in S : Cardinality({j \in S : j <= i}) = k

\* the Ok value of perform_scan for a resolved address: the ports, in list
\* order, whose socket address parses and whose connection succeeds. The
\* loop visits every port of the list; its result is built here from the
\* positions of the reachable ports, which is the same list as long as no
\* port is listed twice (LoopAgreesWithCall checks it against the loop)
perform_scan(ip, ports, service_detection, reach) ==
    LET at == {IndexOf(ports, p) :
                 p \in {q \in reach : VecContains(ports, q) /\ SocketAddrParses(ip, q)}}
    IN  [k \in 1..Cardinality(at) |-> OpenPort(ports[Nth(at, k)], service_detection)]

\* FinishScan that ignores the result of save_results
FinishScan_ignore_save(target, save_to_file, ok, open_ports, err, fs, disk, now) ==
    IF ~ok
    THEN [state |-> Error(Message("Scan failed: ", err.text, err.arg)), files |-> fs]
    ELSE LET saved == IF save_to_file
                      THEN save_results(fs, target, open_ports, disk, now)
                      ELSE [ok |-> TRUE, files |-> fs]
         IN  IF open_ports = <<>>
             THEN [state |-> Success(Message("", "Scan completed. No open ports found on ",
                                             target)),
                   files |-> saved.files]
             ELSE [state |-> ViewingResults(target, open_ports, 0),
                   files |-> saved.files]

\* FinishScan that reports a failed save with the message of a failed scan
FinishScan_scan_failed(target, save_to_file, ok, open_ports, err, fs, disk, now) ==
    IF ~ok
    THEN [state |-> Error(Message("Scan failed: ", err.text, err.arg)), files |-> fs]
    ELSE LET saved == IF save_to_file
                      THEN save_results(fs, target, open_ports, disk, now)
                      ELSE [ok |-> TRUE, files |-> fs]
         IN  IF ~saved.ok
             THEN [state |-> Error(Message("Scan failed: ", "IO error", <<>>)),
                   files |-> saved.files]
             ELSE IF open_ports = <<>>
             THEN [state |-> Success(Message("", "Scan completed. No open ports found on ",
                                             target)),
                   files |-> saved.files]
             ELSE [state |-> ViewingResults(target, open_ports, 0),
                   files |-> saved.files]

\* the match on perform_scan's result at the end of execute_scan
\* FinishScan that saves a report only when a port was found open
FinishScan_save_if_open(target, save_to_file, ok, open_ports, err, fs, disk, now) ==
    IF ~ok
    THEN [state |-> Error(Message("Scan failed: ", err.text, err.arg)), files |-> fs]
    ELSE LET saved == IF save_to_file /\ open_ports # <<>>
                      THEN save_results(fs, target, open_ports, disk, now)
                      ELSE [ok |-> TRUE, files |-> fs]
         IN  IF ~saved.ok
             THEN [state |-> Error(Message("Scan completed but failed to save results: ",
                                           "IO error", <<>>)),
                   files |-> saved.files]
             ELSE IF open_ports = <<>>
             THEN [state |-> Success(Message("", "Scan completed. No open ports found on ",
                                             target)),
                   files |-> saved.files]
             ELSE [state |-> ViewingResults(target, open_ports, 0),
                   files |-> saved.files]

FinishScan(target, save_to_file, ok, open_ports, err, fs, disk, now) ==
    IF ~ok
    THEN [state |-> Error(Message("Scan failed: ", err.text, err.arg)), files |-> fs]
    ELSE LET saved == IF save_to_file
                      THEN save_results(fs, target, open_ports, disk, now)
                      ELSE [ok |-> TRUE, files |-> fs]
         IN  IF ~saved.ok
             THEN [state |-> Error(Message("Scan completed but failed to save results: ",
                                           "IO error", <<>>)),
                   files |-> saved.files]
             ELSE IF open_ports = <<>>
             THEN [state |-> Success(Message("", "Scan completed. No open ports found on ",
                                             target)),
                   files |-> saved.files]
             ELSE [state |-> ViewingResults(target, open_ports, 0),
                   files |-> saved.files]

\* execute_scan on a Confirming state up to the return of perform_scan
ScanPhase(s, lookup, reach) ==
    LET ports == PortsOf(s)
        r == resolve_target(s.target, lookup)
        tried == IF r.ok /\ ports # <<>> /\ SocketAddrParses(r.ip, ports[1])
                 THEN Len(ports) ELSE 0
    IN  [ok |-> r.ok, err |-> r.err,
         open_ports |-> IF r.ok
                        THEN perform_scan(r.ip, ports, s.service_detection, reach)
                        ELSE <<>>,
         net |-> [lookups |-> IF r.looked THEN 1 ELSE 0, connects |-> tried,
                  last |-> IF tried = 0 THEN 0 ELSE ports[Len(ports)]]]

\* the whole of execute_scan on a Confirming state
execute_scan(s, fs, lookup, reach, disk, now) ==
    LET ph == ScanPhase(s, lookup, reach)
        fin == FinishScan(s.target, s.save_to_file, ph.ok, ph.open_ports, ph.err, fs,
                          disk, now)
    IN  [state |-> fin.state, files |-> fin.files, net |-> ph.net]

(***************************************************************************)
(* The alias utilities: validate_alias_name (src/src/utils/shell.rs) and   *)
(* check_duplicate_alias, create_backup, append_alias                      *)
(* (src/src/utils/file_ops.rs).  The RC file, its backups and the          *)
(* temporary file of append_alias are the home directory; a missing file   *)
(* is None.                                                                *)
(***************************************************************************)
AsciiLetters ==
    {"a", "b", "c", "d", "e", "f", "g", "h", "i", "j", "k", "l", "m", "n", "o", "p", "q", "r", "s", "t", "u", "v", "w", "x", "y", "z",
     "A", "B", "C", "D", "E", "F", "G", "H", "I", "J", "K", "L", "M", "N", "O", "P", "Q", "R", "S", "T", "U", "V", "W", "X", "Y", "Z"}

\* char::is_ascii_alphanumeric
IsAsciiAlphanumeric(c) == c \in Digits \cup AsciiLetters

\* let reserved = vec!["if", "then", ...]
reserved ==
    {<<"i", "f">>,
     <<"t", "h", "e", "n">>,
     <<"e", "l", "s", "e">>,
     <<"e", "l", "i", "f">>,
     <<"f", "i">>,
     <<"c", "a", "s", "e">>,
     <<"e", "s", "a", "c">>,
     <<"f", "o", "r">>,
     <<"s", "e", "l", "e", "c", "t">>,
     <<"w", "h", "i", "l", "e">>,
     <<"u", "n", "t", "i", "l">>,
     <<"d", "o">>,
     <<"d", "o", "n", "e">>,
     <<"i", "n">>,
     <<"f", "u", "n", "c", "t", "i", "o", "n">>,
     <<"t", "i", "m", "e">>,
     <<"!">>,
     <<"[", "[">>,
     <<"]", "]">>,
     <<"{">>,
     <<"}">>}

InvalidAliasName(text) == [ok |-> FALSE, text |-> text]
AliasNameOk == [ok |-> TRUE, text |-> ""]

\* validate_alias_name without the check of the first character
validate_alias_name_any_first(name) ==
    IF Len(name) = 0 THEN InvalidAliasName("Alias name cannot be empty")
    ELSE IF ~\A i \in 1..Len(name) : IsAsciiAlphanumeric(name[i]) \/ name[i] = "_"
    THEN InvalidAliasName("Alias name can only contain letters, numbers, and underscores")
    ELSE IF name \in reserved THEN InvalidAliasName("is a shell reserved keyword")
    ELSE AliasNameOk

validate_alias_name(name) ==
    IF Len(name) = 0 THEN InvalidAliasName("Alias name cannot be empty")
    ELSE IF IsAsciiDigit(name[1])
    THEN InvalidAliasName("Alias name cannot start with a digit")
    ELSE IF ~\A i \in 1..Len(name) : IsAsciiAlphanumeric(name[i]) \/ name[i] = "_"
    THEN InvalidAliasName("Alias name can only contain letters, numbers, and underscores")
    ELSE IF name \in reserved THEN InvalidAliasName("is a shell reserved keyword")
    ELSE AliasNameOk

\* str::starts_with
StartsWith(s, prefix) == Len(prefix) <= Len(s) /\ SubSeq(s, 1, Len(prefix)) = prefix

\* str::ends_with(char)
EndsWith(s, c) == Len(s) > 0 /\ s[Len(s)] = c

\* str::lines: the pieces between the line feeds, without a last empty piece
\* and without a carriage return at the end of a line
Lines(content) ==
    LET pieces == Split(content, "\n")
        kept == IF Len(pieces[Len(pieces)]) = 0
                THEN SubSeq(pieces, 1, Len(pieces) - 1)
                ELSE pieces
    IN  [i \in 1..Len(kept) |->
            IF EndsWith(kept[i], "\r") THEN SubSeq(kept[i], 1, Len(kept[i]) - 1)
            ELSE kept[i]]

\* the home directory before any file is written: no RC file, no backup
NoHome == [rc |-> None, backups |-> {}, temp |-> None]
Home(content) == [rc |-> Some(content), backups |-> {}, temp |-> None]

\* no call of a utility has been made
NoCall == [op |-> "none", name |-> <<>>, command |-> <<>>, result |-> None]

AliasKeyword == <<"a", "l", "i", "a", "s", " ">>

\* fs::read_to_string(rc_file)? fails on a missing file; then every line is
\* trimmed and compared with the two patterns
check_duplicate_alias(h, alias_name) ==
    IF h.rc = None THEN [ok |-> FALSE, val |-> FALSE]
    ELSE LET alias_pattern == AliasKeyword \o alias_name \o <<"=">>
             alias_pattern_quoted == AliasKeyword \o alias_name
             lines == Lines(h.rc[1])
         IN  [ok |-> TRUE,
              val |-> \E i \in 1..Len(lines) :
                         LET trimmed == Trim(lines[i])
                         IN  \/ StartsWith(trimmed, alias_pattern)
                             \/ StartsWith(trimmed, alias_pattern_quoted)]

\* file_path.with_extension(format!("backup.{}", timestamp)): one name per second
BackupName(now) == [timestamp |-> now]

\* fs::copy(file_path, &backup_path): fails on a missing file or an I/O error,
\* and replaces a backup of the same name
create_backup(h, copies, now) ==
    IF h.rc = None \/ ~copies THEN [ok |-> FALSE, home |-> h, path |-> None]
    ELSE [ok |-> TRUE,
          home |-> [h EXCEPT !.backups =
                       {b \in @ : b.name # BackupName(now)}
                       \cup {[name |-> BackupName(now), content |-> h.rc[1]]}],
          path |-> Some(BackupName(now))]

\* Local::now().format("%Y-%m-%d %H:%M:%S"), of which the seconds vary
TimeText(now) == <<"2", "0", "2", "5", "-", "0", "1", "-", "0", "1", " ", "0", "0", ":", "0", "0", ":", "0">> \o <<DigitChars[now + 1]>>

\* format!("\n# Added by mode on {}\nalias {}='{}'\n", timestamp, alias_name, command)
AliasEntry(alias_name, command, now) ==
    <<"\n">> \o <<"#", " ", "A", "d", "d", "e", "d", " ", "b", "y", " ", "m", "o", "d", "e", " ", "o", "n", " ">> \o TimeText(now) \o <<"\n">>
    \o AliasKeyword \o alias_name \o <<"=", "'">> \o command \o <<"'", "\n">>

\* what the file system lets append_alias do: everything, or the step that fails
AppendOutcomes ==
    {"appended", "backup_failed", "read_failed", "temp_failed", "write_failed",
     "persist_failed"}

\* append_alias that writes the content as it was read, without the newline
append_alias_no_newline(h, alias_name, command, outcome, backup_now, entry_now) ==
    LET b == create_backup(h, outcome # "backup_failed", backup_now)
    IN  IF ~b.ok
        THEN [ok |-> FALSE, home |-> h, backup |-> None, error |-> "BackupFailed"]
        ELSE IF outcome # "appended"
        THEN [ok |-> FALSE, home |-> b.home, backup |-> None,
              error |-> IF outcome = "read_failed" THEN "Io" ELSE "FileOperation"]
        ELSE [ok |-> TRUE,
              home |-> [b.home EXCEPT !.rc =
                           Some(h.rc[1] \o AliasEntry(alias_name, command, entry_now))],
              backup |-> b.path, error |-> ""]

\* the backup, the read, the temporary file in the directory of the RC file,
\* the two writes and the flush, and the rename over the RC file; a temporary
\* file that is not renamed is removed when it is dropped
append_alias(h, alias_name, command, outcome, backup_now, entry_now) ==
    LET b == create_backup(h, outcome # "backup_failed", backup_now)
    IN  IF ~b.ok
        THEN [ok |-> FALSE, home |-> h, backup |-> None, error |-> "BackupFailed"]
        ELSE IF outcome # "appended"
        THEN [ok |-> FALSE, home |-> b.home, backup |-> None,
              error |-> IF outcome = "read_failed" THEN "Io" ELSE "FileOperation"]
        ELSE LET text == h.rc[1]
                 current_content == IF Len(text) # 0 /\ ~EndsWith(text, "\n")
                                    THEN text \o <<"\n">>
                                    ELSE text
             IN  [ok |-> TRUE,
                  home |-> [b.home EXCEPT !.rc =
                               Some(current_content
                                    \o AliasEntry(alias_name, command, entry_now))],
                  backup |-> b.path, error |-> ""]

(***************************************************************************)
(* Main menu (src/src/menu/items.rs, src/src/menu/state.rs)                *)
(***************************************************************************)
\* MenuItem::all(): the active features first, then the ones to come
MenuItemAll ==
    <<"AliasManager", "ProcessManager", "Bookmark", "UsageViewer", "Scanner",
      "EnvManager", "PathManager", "SshManager", "GitShortcuts", "SystemInfo",
      "Settings">>

\* MenuItem::count()
MenuItemCount == Len(MenuItemAll)

\* MenuItem::is_active()
is_active(item) ==
    item \in {"AliasManager", "ProcessManager", "Bookmark", "UsageViewer", "Scanner"}

\* MenuItem::name(): the display name
MenuItemName(item) ==
    CASE item = "AliasManager" -> "Alias Manager"
      [] item = "ProcessManager" -> "Process Manager"
      [] item = "Bookmark" -> "Bookmark Directory"
      [] item = "UsageViewer" -> "Usage Viewer"
      [] item = "Scanner" -> "Port Scanner"
      [] item = "EnvManager" -> "Environment Variables"
      [] item = "PathManager" -> "PATH Manager"
      [] item = "SshManager" -> "SSH Config"
      [] item = "GitShortcuts" -> "Git Shortcuts"
      [] item = "SystemInfo" -> "System Info"
      [] item = "Settings" -> "Settings"

\* MenuState::new()
MenuState_new == [selected |-> 0, items_count |-> MenuItemCount]

\* MenuState::selected_item(): MenuItem::all()[self.selected]
selected_item(m) == MenuItemAll[m.selected + 1]

\* MenuState::previous()
MenuState_previous(m) ==
    IF m.selected > 0 THEN [m EXCEPT !.selected = m.selected - 1]
    ELSE [m EXCEPT !.selected = m.items_count - 1]

\* MenuState::next()
MenuState_next(m) ==
    IF m.selected < m.items_count - 1 THEN [m EXCEPT !.selected = m.selected + 1]
    ELSE [m EXCEPT !.selected = 0]

\* MenuState::select() without the test of the index
select_unchecked(m, index) == [m EXCEPT !.selected = index]

\* MenuState::select()
select(m, index) ==
    IF index < m.items_count THEN [m EXCEPT !.selected = index] ELSE m

\* MenuState::reset()
reset(m) == [m EXCEPT !.selected = 0]

(***************************************************************************)
(* Keys (crossterm KeyEvent: code and modifiers)                           *)
(***************************************************************************)
Key(code) == [code |-> code, c |-> "", control |-> FALSE]
CharKey(c) == [code |-> "Char", c |-> c, control |-> FALSE]
ControlKey(c) == [code |-> "Char", c |-> c, control |-> TRUE]

IsChar(key, chars) == key.code = "Char" /\ key.c \in chars

(***************************************************************************)
(* Process manager (src/src/features/process_manager.rs)                   *)
(***************************************************************************)
\* ProcessAction::all()
ProcessActionAll == <<"KillCursorServers", "KillUnneededProcesses", "KillAllDevServers">>

\* no kill action has been executed
NoProcs == <<>>

PM_SelectingAction(selected) == [tag |-> "SelectingAction", selected |-> selected]
PM_Confirming(action) == [tag |-> "Confirming", action |-> action]
PM_Processing(action) == [tag |-> "Processing", action |-> action]
PM_Success(message) == [tag |-> "Success", message |-> message]
PM_Error(message) == [tag |-> "Error", message |-> message]

\* ProcessManager::new()
ProcessManager_new == [state |-> PM_SelectingAction(0)]

\* ProcessManager::previous()
ProcessManager_previous(m) ==
    IF m.state.tag = "SelectingAction"
    THEN [m EXCEPT !.state.selected =
            IF m.state.selected = 0 THEN Len(ProcessActionAll) - 1
            ELSE m.state.selected - 1]
    ELSE m

\* ProcessManager::next()
ProcessManager_next(m) ==
    IF m.state.tag = "SelectingAction"
    THEN [m EXCEPT !.state.selected = (m.state.selected + 1) % Len(ProcessActionAll)]
    ELSE m

\* ProcessManager::confirm_selection()
confirm_selection(m) ==
    IF m.state.tag = "SelectingAction"
    THEN [m EXCEPT !.state = PM_Confirming(ProcessActionAll[m.state.selected + 1])]
    ELSE m

\* ProcessAction::execute(): the pkill commands of the action run, and the
\* result is Ok unless a pkill fails with something else than "no process"
execute(action, killed, ran) ==
    [procs |-> Append(killed, action),
     result |-> IF ran THEN [ok |-> TRUE, message |-> <<"terminated", action>>]
                ELSE [ok |-> FALSE, message |-> <<"failed", action>>]]

\* ProcessManager::execute_action(): Confirming, then Processing while the
\* action runs, then Success or Error
execute_action(m, killed, ran) ==
    IF m.state.tag = "Confirming"
    THEN LET r == execute(m.state.action, killed, ran)
         IN  [manager |-> [m EXCEPT !.state =
                             IF r.result.ok THEN PM_Success(r.result.message)
                             ELSE PM_Error(r.result.message)],
              procs |-> r.procs]
    ELSE [manager |-> m, procs |-> killed]

\* ProcessManager::go_back() that runs the action on its way back
ProcessManager_go_back_executing(m, killed) ==
    IF m.state.tag = "Confirming"
    THEN [manager |-> [m EXCEPT !.state = PM_SelectingAction(0)],
          procs |-> Append(killed, m.state.action)]
    ELSE [manager |-> m, procs |-> killed]

\* ProcessManager::go_back()
ProcessManager_go_back(m, killed) ==
    IF m.state.tag = "Confirming"
    THEN [manager |-> [m EXCEPT !.state = PM_SelectingAction(0)], procs |-> killed]
    ELSE [manager |-> m, procs |-> killed]

\* App::handle_process_manager_key_static: the manager after the key, the
\* actions executed, and whether the app returns to the main menu
handle_process_manager_key_static(key, m, killed, ran) ==
    LET stay(r) == [manager |-> r.manager, procs |-> r.procs, return_to_menu |-> FALSE]
        same == [manager |-> m, procs |-> killed]
    IN  CASE m.state.tag = "SelectingAction" ->
                IF key.code = "Up" \/ IsChar(key, {"k"})
                THEN stay([same EXCEPT !.manager = ProcessManager_previous(m)])
                ELSE IF key.code = "Down" \/ IsChar(key, {"j"})
                THEN stay([same EXCEPT !.manager = ProcessManager_next(m)])
                ELSE IF key.code = "Enter"
                THEN stay([same EXCEPT !.manager = confirm_selection(m)])
                ELSE IF key.code = "Esc"
                THEN [manager |-> m, procs |-> killed, return_to_menu |-> TRUE]
                ELSE stay(same)
          [] m.state.tag = "Confirming" ->
                IF IsChar(key, {"y", "Y"})
                THEN stay(execute_action(m, killed, ran))
                ELSE IF IsChar(key, {"n", "N"}) \/ key.code = "Esc"
                THEN stay(ProcessManager_go_back(m, killed))
                ELSE stay(same)
          [] m.state.tag \in {"Success", "Error"} ->
                [manager |-> m, procs |-> killed,
                 return_to_menu |-> key.code \in {"Enter", "Esc"}]
          [] OTHER -> stay(same)

(***************************************************************************)
(* Shell detection (src/src/utils/shell.rs)                                *)
(***************************************************************************)
\* the values of the SHELL variable: unset, bash, zsh, another shell
ShellPaths == {None, Some(<<"/", "b", "i", "n", "/", "b", "a", "s", "h">>), Some(<<"/", "b", "i", "n", "/", "z", "s", "h">>), Some(<<"/", "b", "i", "n", "/", "f", "i", "s", "h">>)}

\* the working directory of the process, when it can be read
WorkingDirs == {None, Some(<<"/", "w">>)}

\* the environment of the process: SHELL, whether HOME is set, whether the
\* RC file is read-only, the working directory
Envs == [SHELL : ShellPaths, HOME : BOOLEAN, readonly : BOOLEAN, cwd : WorkingDirs]

\* str::contains(&str)
ContainsText(s, sub) ==
    \E i \in 1..(Len(s) - Len(sub) + 1) : SubSeq(s, i, i + Len(sub) - 1) = sub

\* detect_shell()
detect_shell(env) ==
    IF env.SHELL = None THEN [ok |-> FALSE, error |-> "ShellDetection"]
    ELSE IF ContainsText(env.SHELL[1], <<"b", "a", "s", "h">>) THEN [ok |-> TRUE, shell |-> "Bash"]
    ELSE IF ContainsText(env.SHELL[1], <<"z", "s", "h">>) THEN [ok |-> TRUE, shell |-> "Zsh"]
    ELSE [ok |-> FALSE, error |-> "ShellDetection"]

\* ShellType::rc_file_name()
rc_file_name(shell) == IF shell = "Bash" THEN ".bashrc" ELSE ".zshrc"

\* get_rc_file_path(): the RC file of the shell in HOME, which has to exist
\* and to be writable
get_rc_file_path(shell, h, env) ==
    IF ~env.HOME THEN [ok |-> FALSE, error |-> "ShellDetection"]
    ELSE IF h.rc = None THEN [ok |-> FALSE, error |-> "RcFileNotFound"]
    ELSE IF env.readonly THEN [ok |-> FALSE, error |-> "RcFileNotWritable"]
    ELSE [ok |-> TRUE, path |-> rc_file_name(shell)]

(***************************************************************************)
(* Alias manager (src/src/features/alias_manager.rs)                       *)
(***************************************************************************)
AM_EnteringName(input) == [tag |-> "EnteringName", input |-> input]
AM_EnteringCommand(name, input) ==
    [tag |-> "EnteringCommand", name |-> name, input |-> input]
AM_Confirming(name, command) ==
    [tag |-> "Confirming", name |-> name, command |-> command]
AM_Processing == [tag |-> "Processing"]
AM_Success(message) == [tag |-> "Success", message |-> message]
AM_Error(message) == [tag |-> "Error", message |-> message]

\* AliasManager::new()
AliasManager_new == [state |-> AM_EnteringName(<<>>), shell |-> None, rc_file |-> None]

\* AliasManager::initialize(): the manager is left as it was on an error
initialize(m, h, env) ==
    LET shell == detect_shell(env)
    IN  IF ~shell.ok THEN [ok |-> FALSE, manager |-> m, error |-> shell.error]
        ELSE LET rc_file == get_rc_file_path(shell.shell, h, env)
             IN  IF ~rc_file.ok
                 THEN [ok |-> FALSE, manager |-> m, error |-> rc_file.error]
                 ELSE [ok |-> TRUE,
                       manager |-> [m EXCEPT !.shell = Some(shell.shell),
                                             !.rc_file = Some(rc_file.path)],
                       error |-> ""]

\* AliasManager::handle_char()
AliasManager_handle_char(m, c) ==
    IF m.state.tag \in {"EnteringName", "EnteringCommand"}
    THEN [m EXCEPT !.state.input = Append(@, c)]
    ELSE m

\* AliasManager::handle_backspace(): String::pop
AliasManager_handle_backspace(m) ==
    IF m.state.tag \in {"EnteringName", "EnteringCommand"} /\ Len(m.state.input) > 0
    THEN [m EXCEPT !.state.input = SubSeq(@, 1, Len(@) - 1)]
    ELSE m

\* AliasManager::advance(): the manager and the home directory after the call
advance(m, h, outcome, backup_now, entry_now) ==
    LET same == [manager |-> m, home |-> h]
        to(s) == [manager |-> [m EXCEPT !.state = s], home |-> h]
        checked(name, dup) ==
            IF ~dup.ok THEN to(AM_Error(<<"Failed to check for duplicates">>))
            ELSE IF dup.val THEN to(AM_Error(<<"already exists in RC file", name>>))
            ELSE to(AM_EnteringCommand(name, <<>>))
        named(name, valid) ==
            IF ~valid.ok THEN to(AM_Error(<<"Invalid alias name", valid.text>>))
            ELSE IF m.rc_file # None
            THEN checked(name, check_duplicate_alias(h, name))
            ELSE same
        appended(r) ==
            [manager |-> [m EXCEPT !.state =
                            IF r.ok
                            THEN AM_Success(<<"Success", m.state.name, m.rc_file[1],
                                              r.backup[1]>>)
                            ELSE AM_Error(<<"Failed to create alias", r.error>>)],
             home |-> r.home]
    IN  CASE m.state.tag = "EnteringName" ->
                LET name == Trim(m.state.input)
                IN  named(name, validate_alias_name(name))
          [] m.state.tag = "EnteringCommand" ->
                LET command == Trim(m.state.input)
                IN  IF Len(command) = 0
                    THEN to(AM_Error(<<"Command cannot be empty">>))
                    ELSE to(AM_Confirming(m.state.name, command))
          [] m.state.tag = "Confirming" ->
                IF m.rc_file # None
                THEN appended(append_alias(h, m.state.name, m.state.command, outcome,
                                           backup_now, entry_now))
                ELSE to(AM_Processing)
          [] OTHER -> same

\* AliasManager::go_back()
AliasManager_go_back(m) ==
    IF m.state.tag \in {"EnteringCommand", "Confirming"}
    THEN [m EXCEPT !.state = AM_EnteringName(<<>>)]
    ELSE m

\* AliasManager::is_done()
AliasManager_is_done(m) == m.state.tag \in {"Success", "Error"}

\* App::handle_alias_manager_key_static: the manager and the home directory
\* after the key, and whether the app returns to the main menu
handle_alias_manager_key_static(key, m, h, outcome, backup_now, entry_now) ==
    LET stay(mgr) == [manager |-> mgr, home |-> h, return_to_menu |-> FALSE]
        after(r) == [manager |-> r.manager, home |-> r.home, return_to_menu |-> FALSE]
    IN  CASE m.state.tag \in {"EnteringName", "EnteringCommand"} ->
                IF key.code = "Char" THEN stay(AliasManager_handle_char(m, key.c))
                ELSE IF key.code = "Backspace" THEN stay(AliasManager_handle_backspace(m))
                ELSE IF key.code = "Enter"
                THEN after(advance(m, h, outcome, backup_now, entry_now))
                ELSE IF key.code = "Esc"
                THEN [manager |-> m, home |-> h, return_to_menu |-> TRUE]
                ELSE stay(m)
          [] m.state.tag = "Confirming" ->
                IF IsChar(key, {"y", "Y"})
                THEN after(advance(m, h, outcome, backup_now, entry_now))
                ELSE IF IsChar(key, {"n", "N"}) \/ key.code = "Esc"
                THEN stay(AliasManager_go_back(m))
                ELSE stay(m)
          [] m.state.tag \in {"Success", "Error"} ->
                [manager |-> m, home |-> h,
                 return_to_menu |-> key.code \in {"Enter", "Esc"}]
          [] OTHER -> stay(m)

(***************************************************************************)
(* Bookmark manager (src/src/features/bookmark_manager.rs)                 *)
(***************************************************************************)
BM_Confirming(directory) == [tag |-> "Confirming", directory |-> directory]
BM_Processing == [tag |-> "Processing"]
BM_Success(message) == [tag |-> "Success", message |-> message]
BM_Error(message) == [tag |-> "Error", message |-> message]

\* BookmarkManager::new(): the working directory, or "unknown"
BookmarkManager_new(env) ==
    [state |-> BM_Confirming(IF env.cwd = None THEN <<"u", "n", "k", "n", "o", "w", "n">> ELSE env.cwd[1]),
     shell |-> None, rc_file |-> None]

\* the lines put together again, each with its line feed
RECURSIVE Unlines(_)
Unlines(lines) ==
    IF Len(lines) = 0 THEN <<>>
    ELSE lines[1] \o <<"\n">> \o Unlines(Tail(lines))

\* file_ops::remove_alias, which confirm_bookmark calls and whose source is
\* not in file_ops.rs: it fails, which the caller only reports, or it takes
\* the lines that define the alias out of the RC file
remove_alias(h, alias_name, removes) ==
    IF h.rc = None \/ ~removes THEN h
    ELSE LET defines(line) == StartsWith(Trim(line), AliasKeyword \o alias_name \o <<"=">>)
         IN  [h EXCEPT !.rc =
                Some(Unlines(SelectSeq(Lines(h.rc[1]), LAMBDA line : ~defines(line))))]

\* the command of the bookmark: format!("cd \"{}\"", dir)
BookmarkCommand(directory) == <<"c", "d", " ", "\"">> \o directory \o <<"\"">>

\* the alias of the bookmark
TempAlias == <<"t", "e", "m", "p">>

\* BookmarkManager::confirm_bookmark()
confirm_bookmark(m, h, removes, outcome, backup_now, entry_now) ==
    IF m.state.tag = "Confirming"
    THEN IF m.rc_file # None
         THEN LET appended(r) ==
                      [manager |-> [m EXCEPT !.state =
                                      IF r.ok
                                      THEN BM_Success(<<"Temporary bookmark created",
                                                        m.state.directory, r.backup[1]>>)
                                      ELSE BM_Error(<<"Failed to create bookmark",
                                                      r.error>>)],
                       home |-> r.home]
              IN  appended(append_alias(remove_alias(h, TempAlias, removes), TempAlias,
                                        BookmarkCommand(m.state.directory), outcome,
                                        backup_now, entry_now))
         ELSE [manager |-> [m EXCEPT !.state = BM_Processing], home |-> h]
    ELSE [manager |-> m, home |-> h]

\* BookmarkManager::should_exit_app()
should_exit_app(m) == m.state.tag = "Success"

\* App::handle_bookmark_manager_key_static: the manager and the home
\* directory after the key, whether the app returns to the main menu and
\* whether it exits
handle_bookmark_manager_key_static(key, m, h, removes, outcome, backup_now, entry_now) ==
    LET stay == [manager |-> m, home |-> h, return_to_menu |-> FALSE, exit_app |-> FALSE]
        after(r) == [manager |-> r.manager, home |-> r.home, return_to_menu |-> FALSE,
                     exit_app |-> should_exit_app(r.manager)]
    IN  CASE m.state.tag = "Confirming" ->
                IF key.code = "Enter"
                THEN after(confirm_bookmark(m, h, removes, outcome, backup_now,
                                            entry_now))
                ELSE IF key.code = "Esc" THEN [stay EXCEPT !.return_to_menu = TRUE]
                ELSE stay
          [] m.state.tag = "Success" ->
                [stay EXCEPT !.exit_app = key.code \in {"Enter", "Esc"}]
          [] m.state.tag = "Error" ->
                [stay EXCEPT !.return_to_menu = key.code \in {"Enter", "Esc"}]
          [] OTHER -> stay

(***************************************************************************)
(* Usage viewer (src/src/features/usage_viewer.rs)                         *)
(***************************************************************************)
\* UsageViewer::new()
UsageViewer_new == [state |-> [tag |-> "Ready"]]

\* UsageViewer::open_browser(): Opening, then Success or Error as the
\* command of the platform starts or not; the call itself returns Ok
open_browser(v, opened) ==
    [ok |-> TRUE,
     viewer |-> [v EXCEPT !.state =
                   IF opened THEN [tag |-> "Success", message |-> "Opening in browser"]
                   ELSE [tag |-> "Error", message |-> "Failed to open browser"]]]

\* App::handle_usage_viewer_key_static
handle_usage_viewer_key_static(key, v, opened) ==
    CASE v.state.tag = "Ready" ->
            IF key.code = "Enter"
            THEN [viewer |-> open_browser(v, opened).viewer, return_to_menu |-> FALSE]
            ELSE [viewer |-> v, return_to_menu |-> key.code = "Esc"]
      [] v.state.tag \in {"Success", "Error"} ->
            [viewer |-> v, return_to_menu |-> key.code \in {"Enter", "Esc"}]
      [] OTHER -> [viewer |-> v, return_to_menu |-> FALSE]

(***************************************************************************)
(* The application (src/src/app.rs)                                        *)
(***************************************************************************)
MainMenu == [tag |-> "MainMenu"]
FeatureActive(feature) == [tag |-> "FeatureActive", feature |-> feature]

\* ActiveFeature: the feature and its manager
ActiveFeature(tag, manager) == [tag |-> tag, manager |-> manager]

\* PlaceholderFeature::new(name)
PlaceholderFeature_new(name) == [name |-> name]

\* App::new()
App_new ==
    [state |-> MainMenu, menu_state |-> MenuState_new, should_quit |-> FALSE,
     error_message |-> None, exit_command |-> None]

\* App::activate_menu_item()
activate_menu_item(a, h, env, opened) ==
    LET item == selected_item(a.menu_state)
        failed(error) == Some(<<"Failed to initialize", error>>)
    IN  IF is_active(item)
        THEN CASE item = "AliasManager" ->
                    LET r == initialize(AliasManager_new, h, env)
                    IN  IF ~r.ok THEN [a EXCEPT !.error_message = failed(r.error)]
                        ELSE [a EXCEPT !.state =
                                FeatureActive(ActiveFeature("AliasManager", r.manager))]
               [] item = "ProcessManager" ->
                    [a EXCEPT !.state =
                        FeatureActive(ActiveFeature("ProcessManager", ProcessManager_new))]
               [] item = "Bookmark" ->
                    LET r == initialize(BookmarkManager_new(env), h, env)
                    IN  IF ~r.ok THEN [a EXCEPT !.error_message = failed(r.error)]
                        ELSE [a EXCEPT !.state =
                                FeatureActive(ActiveFeature("BookmarkManager", r.manager))]
               [] item = "UsageViewer" ->
                    LET r == open_browser(UsageViewer_new, opened)
                    IN  [a EXCEPT !.error_message =
                                    IF ~r.ok THEN Some(<<"Failed to open browser">>) ELSE @,
                                  !.state =
                                    FeatureActive(ActiveFeature("UsageViewer", r.viewer))]
               [] OTHER -> a
        ELSE [a EXCEPT !.state =
                FeatureActive(ActiveFeature("Placeholder",
                                            PlaceholderFeature_new(MenuItemName(item))))]

\* App::handle_main_menu_key()
handle_main_menu_key(a, key, h, env, opened) ==
    IF IsChar(key, {"q", "Q"}) THEN [a EXCEPT !.should_quit = TRUE]
    ELSE IF IsChar(key, {"c"}) /\ key.control THEN [a EXCEPT !.should_quit = TRUE]
    ELSE IF key.code = "Up" \/ IsChar(key, {"k"})
    THEN [a EXCEPT !.menu_state = MenuState_previous(@)]
    ELSE IF key.code = "Down" \/ IsChar(key, {"j"})
    THEN [a EXCEPT !.menu_state = MenuState_next(@)]
    ELSE IF key.code = "Enter" THEN activate_menu_item(a, h, env, opened)
    ELSE IF key.code = "Esc" THEN [a EXCEPT !.should_quit = TRUE]
    ELSE a

\* format!("source {}", rc_file.display())
SourceCommand(rc_file) == <<"source", rc_file>>

\* the end of the FeatureActive arm of handle_key
return_to_menu(a, returns) == IF returns THEN [a EXCEPT !.state = MainMenu] ELSE a

(***************************************************************************)
(* Events (src/src/event.rs) and the main loop (src/src/main.rs)           *)
(***************************************************************************)
KeyEvent(key) == [kind |-> "Key", key |-> key]
MouseEvent == [kind |-> "Mouse"]
ResizeEvent == [kind |-> "Resize"]
TickEvent == [kind |-> "Tick"]

\* EventHandler::new(): the thread is at the top of its loop, nothing has been
\* read from the terminal, the channel is empty and its receiver alive;
\* no event of the terminal has been handled and no exit command written
NoEvents ==
    [thread |-> "poll", read |-> <<>>, chan |-> <<>>, rx |-> "open",
     handled |-> <<>>, exit_file |-> None]

\* tx.send(event): the event is queued, or the call fails when the receiver
\* has been dropped
send(e, event) ==
    IF e.rx = "open" THEN [ok |-> TRUE, events |-> [e EXCEPT !.chan = Append(@, event)]]
    ELSE [ok |-> FALSE, events |-> e]

\* a thread that goes on after a send has failed
sent_ignoring_error(r, goes_to) == [r.events EXCEPT !.thread = goes_to]

\* if tx.send(..).is_err() { return; }
sent(r, goes_to) ==
    IF r.ok THEN [r.events EXCEPT !.thread = goes_to]
    ELSE [r.events EXCEPT !.thread = "stopped"]

\* what event::read() gives the thread: a key, a mouse or a resize event,
\* which it sends on, or anything else, which it drops
IsSent(event) == event.kind \in {"Key", "Mouse", "Resize"}

\* the events of the terminal among those of a sequence
Terminal(events_) == SelectSeq(events_, LAMBDA ev : ev.kind # "Tick")

(***************************************************************************)
(* The wizard: every operation of Scanner as one call, on any state        *)
(***************************************************************************)
\* the keys that reach handle_char and handle_port_range_char
TargetChars == {"a", ":", ".", "-", " "}
RangeChars == {"1", "2", ",", "-", " ", "x"}

Init ==
    /\ state = new
    /\ pc = "idle"
    /\ scan = NoScan
    /\ net = NoNet
    /\ files = {}
    /\ clock = 0
    /\ app = App_new
    /\ procs = NoProcs
    /\ events = NoEvents
    /\ home = NoHome
    /\ call = NoCall

\* a call that only reads and writes Scanner.state
Call(after) ==
    /\ pc = "idle"
    /\ state' = after
    /\ UNCHANGED <<pc, scan, net, files, clock, home, call, app, procs, events>>

Previous == Call(previous(state))
Next_ == Call(next(state))
ConfirmScanType == Call(confirm_scan_type(state))
HandleChar ==
    /\ state.tag = "EnteringTarget" => Len(state.input) < MaxTargetLen
    /\ \E c \in TargetChars : Call(handle_char(state, c))
HandleBackspace == Call(handle_backspace(state))
AdvanceToOptions == Call(advance_to_options(state))
HandlePortRangeChar ==
    /\ state.tag = "EnteringPortRange" => Len(state.input) < MaxRangeLen
    /\ \E c \in RangeChars : Call(handle_port_range_char(state, c))
HandlePortRangeBackspace == Call(handle_port_range_backspace(state))
AdvanceFromPortRange == Call(advance_from_port_range(state))
ToggleOption == Call(toggle_option(state))
AdvanceToConfirmation == Call(advance_to_confirmation(state))
GoBack == Call(go_back(state))

\* the choices of the environment that a scan of s can observe
LookupsFor(s) == IF IsIpAddr(s.target) THEN {[ok |-> FALSE, addrs |-> <<>>]}
                 ELSE LookupOutcomes
ReachFor(ports) == SUBSET {p \in Listeners : VecContains(ports, p)}
DisksFor(s) == IF s.save_to_file THEN DiskOutcomes ELSE {"written"}

\* execute_scan as one call: it returns only when the scan is over; the
\* clock may have advanced when save_results reads it
ExecuteScan ==
    /\ pc = "idle"
    /\ state.tag = "Confirming"
    /\ \E lookup \in LookupsFor(state), reach \in ReachFor(PortsOf(state)) :
         LET ph == ScanPhase(state, lookup, reach)
         IN  \E disk \in DisksFor(state), now \in clock..MaxClock :
                LET fin == FinishScan(state.target, state.save_to_file, ph.ok,
                                      ph.open_ports, ph.err, files, disk, now)
                IN  /\ state' = fin.state
                    /\ net' = ph.net
                    /\ files' = fin.files
                    /\ clock' = now
    /\ UNCHANGED <<pc, scan, home, call, app, procs, events>>

Next ==
    \/ Previous
    \/ Next_
    \/ ConfirmScanType
    \/ HandleChar
    \/ HandleBackspace
    \/ AdvanceToOptions
    \/ HandlePortRangeChar
    \/ HandlePortRangeBackspace
    \/ AdvanceFromPortRange
    \/ ToggleOption
    \/ AdvanceToConfirmation
    \/ GoBack
    \/ ExecuteScan

Spec == Init /\ [][Next]_vars

(***************************************************************************)
(* execute_scan and perform_scan step by step: the state is Scanning       *)
(* while the loop runs, and no other operation runs before it returns      *)
(***************************************************************************)
\* ProbeResult that records a failed connection as a Closed port
ProbeResult_closed(open_ports, port, service_detection, connected) ==
    IF connected THEN Append(open_ports, OpenPort(port, service_detection))
    ELSE Append(open_ports, PortInfo(port, None, "Closed"))

\* the body of the match on connect_timeout: Ok pushes the port as Open,
\* Err does nothing
ProbeResult(open_ports, port, service_detection, connected) ==
    IF connected THEN Append(open_ports, OpenPort(port, service_detection))
    ELSE open_ports

\* SetProgress with the index instead of the count
SetProgress_idx(s, idx) == IF s.tag = "Scanning" THEN [s EXCEPT !.progress = idx] ELSE s

\* if let Scanning { progress, .. } = &mut self.state { *progress = idx + 1 }
\* (idx counts from 0)
SetProgress(s, idx) == IF s.tag = "Scanning" THEN [s EXCEPT !.progress = idx + 1] ELSE s

\* execute_scan up to the call of perform_scan; reach is the set of ports on
\* which the target accepts a connection within the timeout during this scan
ExecBegin ==
    /\ pc = "idle"
    /\ state.tag = "Confirming"
    /\ LET ports == PortsOf(state)
       IN  /\ state' = Scanning(state.scan_type, state.target, 0, Len(ports),
                                state.service_detection, state.save_to_file,
                                state.custom_ports)
           /\ \E reach \in ReachFor(ports) :
                scan' = [NoScan EXCEPT !.entry = state, !.ports = ports,
                                       !.reach = reach]
    /\ pc' = "resolve"
    /\ UNCHANGED <<net, files, clock, home, call, app, procs, events>>

\* let ip = self.resolve_target(target)?;
Resolve ==
    /\ pc = "resolve"
    /\ \E lookup \in LookupsFor(scan.entry) :
         LET r == resolve_target(scan.entry.target, lookup)
         IN  /\ net' = [net EXCEPT !.lookups = @ + (IF r.looked THEN 1 ELSE 0)]
             /\ IF r.ok
                THEN /\ scan' = [scan EXCEPT !.ip = Some(r.ip)]
                     /\ pc' = "loop"
                ELSE /\ scan' = [scan EXCEPT !.result = "err", !.err = r.err]
                     /\ pc' = "return"
    /\ UNCHANGED <<state, files, clock, home, call, app, procs, events>>

\* the loop takes the next port and updates the progress
Progress ==
    /\ pc = "loop"
    /\ scan.idx < Len(scan.ports)
    /\ state' = SetProgress(state, scan.idx)
    /\ pc' = "probe"
    /\ UNCHANGED <<scan, net, files, clock, home, call, app, procs, events>>

\* the socket address is built and, if it parses, one connection is tried
Probe ==
    /\ pc = "probe"
    /\ LET port == scan.ports[scan.idx + 1]
       IN  IF SocketAddrParses(scan.ip[1], port)
           THEN /\ net' = [net EXCEPT !.connects = @ + 1, !.last = port]
                /\ scan' = [scan EXCEPT
                              !.idx = @ + 1,
                              !.open_ports =
                                 ProbeResult(@, port, scan.entry.service_detection,
                                             port \in scan.reach)]
           ELSE /\ net' = net
                /\ scan' = [scan EXCEPT !.idx = @ + 1]
    /\ pc' = "loop"
    /\ UNCHANGED <<state, files, clock, home, call, app, procs, events>>

\* the loop is over: perform_scan returns Ok(open_ports)
LoopExit ==
    /\ pc = "loop"
    /\ scan.idx >= Len(scan.ports)
    /\ scan' = [scan EXCEPT !.result = "ok"]
    /\ pc' = "return"
    /\ UNCHANGED <<state, net, files, clock, home, call, app, procs, events>>

\* the match on the result of perform_scan; the locals stay for inspection
Return ==
    /\ pc = "return"
    /\ \E disk \in DisksFor(scan.entry), now \in clock..MaxClock :
         LET fin == FinishScan(scan.entry.target, scan.entry.save_to_file,
                               scan.result = "ok", scan.open_ports, scan.err, files,
                               disk, now)
         IN  /\ state' = fin.state
             /\ files' = fin.files
             /\ clock' = now
    /\ pc' = "idle"
    /\ UNCHANGED <<scan, net, home, call, app, procs, events>>

\* the targets and custom port expressions of the scans that are stepped
HostAB == <<"a", ".", "b">>
ScanTargets == {Text4, Text6, HostAB}
ScanExprs ==
    {<<"2", "2">>,
     <<"2", "0", "-", "2", "2">>,
     <<"2", "2", ",", "2">>,
     <<"1", "-", "3", ",", "2", ",", "5", "-", "5">>}

\* the Confirming states from which a scan is stepped. A FullScan is stepped
\* by no specification (two steps for each of 65535 ports): its scan is
\* covered by ExecuteScan
ScanEntries ==
    {Confirming(st, t, sd, sv, None) :
        st \in {"QuickScan", "StandardScan"}, t \in ScanTargets,
        sd \in BOOLEAN, sv \in BOOLEAN}
    \cup
    {Confirming("CustomRange", t, sd, sv, Some(parse_port_range(e).ports)) :
        e \in ScanExprs, t \in ScanTargets, sd \in BOOLEAN, sv \in BOOLEAN}

InitScan ==
    /\ state \in ScanEntries
    /\ pc = "idle"
    /\ scan = NoScan
    /\ net = NoNet
    /\ files = {}
    /\ clock = 0
    /\ app = App_new
    /\ procs = NoProcs
    /\ events = NoEvents
    /\ home = NoHome
    /\ call = NoCall

NextScan ==
    \/ ExecBegin
    \/ Resolve
    \/ Progress
    \/ Probe
    \/ LoopExit
    \/ Return

SpecScan == InitScan /\ [][NextScan]_vars

(***************************************************************************)
(* parse_port_range on whole expressions: the port-range field holds an    *)
(* expression of up to MaxTokens tokens and is submitted                   *)
(***************************************************************************)
ParseTokens ==
    {<<>>,
     <<"0">>,
     <<"2">>,
     <<" ", "7", " ">>,
     <<"0", "8">>,
     <<"2", " ", "2">>,
     <<"5", "-", "5">>,
     <<"1", "-", "3">>,
     <<"3", " ", "-", " ", "4">>,
     <<"0", "-", "1", "0">>,
     <<"1", "0", "0", "-", "5", "0">>,
     <<"1", "-", "2", "-", "3">>,
     <<"-", "5">>,
     <<"3", "-">>,
     <<"6", "5", "5", "3", "5">>,
     <<"6", "5", "5", "3", "6">>,
     <<"6", "5", "5", "3", "4", "-", "6", "5", "5", "3", "5">>,
     <<"6", "5", "5", "3", "5", "-", "6", "5", "5", "3", "6">>}

RECURSIVE JoinComma(_)
JoinComma(toks) ==
    IF Len(toks) = 1 THEN toks[1]
    ELSE toks[1] \o <<",">> \o JoinComma(Tail(toks))

Example135 == <<"1", "-", "3", ",", "2", ",", "5", "-", "5">>

ParseInputs ==
    {JoinComma(toks) : toks \in UNION {[1..n -> ParseTokens] : n \in 1..MaxTokens}}
    \cup {Example135}

InitParse ==
    /\ state \in {EnteringPortRange(Text4, e) : e \in ParseInputs}
    /\ pc = "idle"
    /\ scan = NoScan
    /\ net = NoNet
    /\ files = {}
    /\ clock = 0
    /\ app = App_new
    /\ procs = NoProcs
    /\ events = NoEvents
    /\ home = NoHome
    /\ call = NoCall

NextParse ==
    \/ AdvanceFromPortRange
    \/ GoBack

SpecParse == InitParse /\ [][NextParse]_vars

(***************************************************************************)
(* validate_target on whole targets: the target field holds a host name of *)
(* up to MaxLabels labels, or one of the named targets, and is submitted   *)
(***************************************************************************)
\* most labels of a host name joined from TargetLabels
MaxLabels == 2

\* str::repeat
Repeat(c, n) == [i \in 1..n |-> c]

TargetLabels ==
    {<<>>,
     <<"a">>,
     <<"a", "-", "b">>,
     <<"-", "b", "a", "d">>,
     <<"a", "-">>,
     <<"a", " ", "b">>,
     <<"a", "_">>,
     <<"c", "o", "m">>,
     <<"1">>,
     <<"2", "5", "6">>,
     Repeat("a", 63),
     Repeat("a", 64),
     Repeat("U+00E9", 31),
     Repeat("U+00E9", 32)}

RECURSIVE JoinDot(_)
JoinDot(labels) ==
    IF Len(labels) = 1 THEN labels[1]
    ELSE labels[1] \o <<".">> \o JoinDot(Tail(labels))

\* host names of four and five labels: 253, 254 and 319 characters
LongHosts ==
    {JoinDot(<<Repeat("a", 63), Repeat("a", 63), Repeat("a", 63), Repeat("a", 61)>>),
     JoinDot(<<Repeat("a", 63), Repeat("a", 63), Repeat("a", 63), Repeat("a", 62)>>),
     JoinDot(<<Repeat("a", 63), Repeat("a", 63), Repeat("a", 63), Repeat("a", 63),
               Repeat("a", 63)>>),
     JoinDot(<<Repeat("a", 60), Repeat("a", 60), Repeat("a", 60), Repeat("a", 60),
               Repeat("a", 56)>>)}

Text192 == <<"1", "9", "2", ".", "1", "6", "8", ".", "1", ".", "1">>

\* IP literals, near misses of IP literals, and padded input
NamedTargets ==
    {Text192, Text4, Text6,
     <<" ", ":", ":", "1", " ">>,
     <<"1", ".", "2", ".", "3", ".", "2", "5", "6">>,
     <<"1", ".", "2", ".", "3", ".", "4", ".", "5">>,
     <<"0", "1", ".", "2", ".", "3", ".", "4">>,
     <<":", ":", "g">>,
     <<"1", ":", ":", "2", ":", ":", "3">>,
     <<":", ":", "f", "f", "f", "f", ":", "1", ".", "2", ".", "3", ".", "4">>,
     <<" ", "a", ".", "b", " ">>,
     <<" ">>}

ValidateInputs ==
    {JoinDot(ls) : ls \in UNION {[1..n -> TargetLabels] : n \in 1..MaxLabels}}
    \cup LongHosts \cup NamedTargets

InitValidate ==
    /\ state \in {EnteringTarget(st, t) :
                    st \in {"QuickScan", "CustomRange"}, t \in ValidateInputs}
    /\ pc = "idle"
    /\ scan = NoScan
    /\ net = NoNet
    /\ files = {}
    /\ clock = 0
    /\ app = App_new
    /\ procs = NoProcs
    /\ events = NoEvents
    /\ home = NoHome
    /\ call = NoCall

NextValidate ==
    \/ AdvanceToOptions
    \/ HandlePortRangeChar
    \/ GoBack

SpecValidate == InitValidate /\ [][NextValidate]_vars

(***************************************************************************)
(* Scans with save_to_file, one after the other in one working directory:  *)
(* a Scanner runs one scan; the next scan is run by a new Scanner, and the *)
(* report files and the clock stay                                         *)
(***************************************************************************)
\* the scans that write a report
ReportEntries ==
    {Confirming("CustomRange", t, FALSE, TRUE, Some(<<22>>)) : t \in {Text4, HostAB}}

\* Scanner::new for the next scan, brought to Confirming by the wizard
NewSession ==
    /\ pc = "idle"
    /\ state.tag \in {"ViewingResults", "Success", "Error"}
    /\ state' \in ReportEntries
    /\ net' = NoNet
    /\ UNCHANGED <<pc, scan, files, clock, home, call, app, procs, events>>

InitReports ==
    /\ state \in ReportEntries
    /\ pc = "idle"
    /\ scan = NoScan
    /\ net = NoNet
    /\ files = {}
    /\ clock = 0
    /\ app = App_new
    /\ procs = NoProcs
    /\ events = NoEvents
    /\ home = NoHome
    /\ call = NoCall

NextReports ==
    \/ ExecuteScan
    \/ NewSession

SpecReports == InitReports /\ [][NextReports]_vars

(***************************************************************************)
(* The configure step and what follows it: the scanner has just entered    *)
(* SelectingOptions; the options are toggled, confirmed or left by back,   *)
(* and the confirmed scan runs step by step                                *)
(***************************************************************************)
\* SelectingOptions as advance_to_options and advance_from_port_range enter it
OptionEntries ==
    {SelectingOptions("QuickScan", t, 0, FALSE, FALSE, None) : t \in {Text4, HostAB}}
    \cup
    {SelectingOptions("CustomRange", t, 0, FALSE, FALSE, Some(<<22>>)) :
        t \in {Text4, HostAB}}

InitOptions ==
    /\ state \in OptionEntries
    /\ pc = "idle"
    /\ scan = NoScan
    /\ net = NoNet
    /\ files = {}
    /\ clock = 0
    /\ app = App_new
    /\ procs = NoProcs
    /\ events = NoEvents
    /\ home = NoHome
    /\ call = NoCall

NextOptions ==
    \/ Previous
    \/ Next_
    \/ ToggleOption
    \/ AdvanceToConfirmation
    \/ GoBack
    \/ AdvanceToOptions
    \/ HandlePortRangeChar
    \/ AdvanceFromPortRange
    \/ ExecBegin
    \/ Resolve
    \/ Progress
    \/ Probe
    \/ LoopExit
    \/ Return

SpecOptions == InitOptions /\ [][NextOptions]_vars

(***************************************************************************)
(* validate_alias_name on whole names: every name of up to MaxNameLen      *)
(* characters, the names of the tests and the reserved words               *)
(***************************************************************************)
\* longest alias name built from NameChars
MaxNameLen == 2

NameChars == {"l", "i", "f", "A", "1", "_", "-", " ", "!", "U+00E9"}

NamesOfLen(n) == {[i \in 1..n |-> f[i]] : f \in [1..n -> NameChars]}

NamedAliases ==
    {<<"l", "l">>,
     <<"m", "y", "_", "a", "l", "i", "a", "s">>,
     <<"a", "l", "i", "a", "s", "1", "2", "3">>,
     <<"1", "2", "3", "a", "l", "i", "a", "s">>,
     <<"m", "y", "-", "a", "l", "i", "a", "s">>,
     <<"m", "y", " ", "a", "l", "i", "a", "s">>}

AliasNames == UNION {NamesOfLen(n) : n \in 0..MaxNameLen} \cup NamedAliases \cup reserved

InitAliasName ==
    /\ state = new
    /\ pc = "idle"
    /\ scan = NoScan
    /\ net = NoNet
    /\ files = {}
    /\ clock = 0
    /\ app = App_new
    /\ procs = NoProcs
    /\ events = NoEvents
    /\ home = NoHome
    /\ call \in {[NoCall EXCEPT !.op = "validate_alias_name", !.name = n] :
                    n \in AliasNames}

ValidateAliasName ==
    /\ call.op = "validate_alias_name"
    /\ call.result = None
    /\ call' = [call EXCEPT !.result = Some(validate_alias_name(call.name))]
    /\ UNCHANGED <<state, pc, scan, net, files, clock, home, app, procs, events>>

NextAliasName == ValidateAliasName

SpecAliasName == InitAliasName /\ [][NextAliasName]_vars

(***************************************************************************)
(* The RC file: it starts with up to MaxRcLines lines, with or without a   *)
(* last newline, or is missing; aliases are looked up in it and appended   *)
(* to it while it has room for another entry                               *)
(***************************************************************************)
\* most lines of the RC file at the start
MaxRcLines == 2

\* most lines of an RC file that has been appended to
MaxFileLines == 6

RcLines ==
    {<<"a", "l", "i", "a", "s", " ", "l", "l", "=", "'", "l", "s", "'">>,
     <<"a", "l", "i", "a", "s", " ", "l", "l", "x", "=", "'", "l", "s", "'">>,
     <<" ", " ", "a", "l", "i", "a", "s", " ", "l", "l", "=", "'", "l", "s", "'">>,
     <<"#", " ", "a", "l", "i", "a", "s", " ", "l", "l", "=", "'", "l", "s", "'">>,
     <<"a", "l", "i", "a", "s", " ", "l", "l">>}

RECURSIVE JoinLines(_)
JoinLines(ls) ==
    IF Len(ls) = 0 THEN <<>>
    ELSE IF Len(ls) = 1 THEN ls[1]
    ELSE ls[1] \o <<"\n">> \o JoinLines(Tail(ls))

RcContents ==
    LET texts == {JoinLines(ls) : ls \in UNION {[1..n -> RcLines] : n \in 0..MaxRcLines}}
    IN  texts \cup {t \o <<"\n">> : t \in texts \ {<<>>}}

\* the alias names looked up and appended, and the command of the new alias
RcNames == {<<"l", "l">>, <<"l", "l", "x">>}
RcCommands == {<<"l", "s">>}

InitRc ==
    /\ state = new
    /\ pc = "idle"
    /\ scan = NoScan
    /\ net = NoNet
    /\ files = {}
    /\ clock = 0
    /\ app = App_new
    /\ procs = NoProcs
    /\ events = NoEvents
    /\ home \in {NoHome} \cup {Home(c) : c \in RcContents}
    /\ call = NoCall

CheckDuplicateAlias ==
    /\ \E name \in RcNames :
         call' = [op |-> "check_duplicate_alias", name |-> name, command |-> <<>>,
                  result |-> Some(check_duplicate_alias(home, name))]
    /\ UNCHANGED <<state, pc, scan, net, files, clock, home, app, procs, events>>

\* room for the three lines of one more entry
HasRoom(h) == IF h.rc = None THEN TRUE ELSE Len(Lines(h.rc[1])) + 3 <= MaxFileLines

AppendAlias ==
    /\ HasRoom(home)
    /\ \E name \in RcNames, command \in RcCommands, outcome \in AppendOutcomes,
          backup_now \in clock..MaxClock :
         \E entry_now \in backup_now..MaxClock :
            LET r == append_alias(home, name, command, outcome, backup_now, entry_now)
            IN  /\ home' = r.home
                /\ call' = [op |-> "append_alias", name |-> name, command |-> command,
                            result |-> Some([ok |-> r.ok, backup |-> r.backup,
                                             error |-> r.error])]
                /\ clock' = entry_now
    /\ UNCHANGED <<state, pc, scan, net, files, app, procs, events>>

NextRc ==
    \/ CheckDuplicateAlias
    \/ AppendAlias

SpecRc == InitRc /\ [][NextRc]_vars

(***************************************************************************)
(* append_alias step by step: the backup, the read, the temporary file,    *)
(* the two writes, the flush and the rename, each of which can fail        *)
(***************************************************************************)
\* if !current_content.is_empty() && !current_content.ends_with('\n') { push('\n') }
EnsureNewline(text) ==
    IF Len(text) # 0 /\ ~EndsWith(text, "\n") THEN text \o <<"\n">> ELSE text

\* write_all that writes into the RC file itself
write_all_in_place(h, bytes) == [h EXCEPT !.rc = Some(bytes), !.temp = Some(@[1] \o bytes)]

\* temp_file.write_all(bytes)
write_all(h, bytes) == [h EXCEPT !.temp = Some(@[1] \o bytes)]

\* a write that fails may have written the first byte
write_failed(h, bytes) ==
    IF Len(bytes) = 0 THEN h ELSE [h EXCEPT !.temp = Some(@[1] \o <<bytes[1]>>)]

\* Drop for NamedTempFile: the file is removed
drop_temp(h) == [h EXCEPT !.temp = None]

\* temp_file.persist(rc_file): the rename over the RC file
persist(h) == [h EXCEPT !.rc = h.temp, !.temp = None]

AppendErr(c, error) ==
    [c EXCEPT !.pc = "done",
              !.result = Some([ok |-> FALSE, backup |-> None, error |-> error])]

AppendBegin ==
    /\ call.op = "none"
    /\ \E name \in RcNames, command \in RcCommands :
         call' = [op |-> "append_alias", name |-> name, command |-> command,
                  result |-> None, pc |-> "backup", entry |-> home, backup |-> None,
                  current_content |-> <<>>, alias_entry |-> <<>>]
    /\ UNCHANGED <<state, pc, scan, net, files, clock, home, app, procs, events>>

\* let backup_path = create_backup(rc_file)?;
CreateBackup ==
    /\ call.op = "append_alias" /\ call.pc = "backup"
    /\ \E copies \in BOOLEAN, now \in clock..MaxClock :
         LET b == create_backup(home, copies, now)
         IN  /\ home' = b.home
             /\ clock' = now
             /\ call' = IF b.ok THEN [call EXCEPT !.pc = "read", !.backup = b.path]
                        ELSE AppendErr(call, "BackupFailed")
    /\ UNCHANGED <<state, pc, scan, net, files, app, procs, events>>

\* fs::File::open(rc_file)?.read_to_string(&mut current_content)?; and the entry
ReadContent ==
    /\ call.op = "append_alias" /\ call.pc = "read"
    /\ \E reads \in BOOLEAN, now \in clock..MaxClock :
         /\ clock' = now
         /\ call' = IF reads /\ home.rc # None
                    THEN [call EXCEPT !.pc = "temp",
                            !.current_content = EnsureNewline(home.rc[1]),
                            !.alias_entry = AliasEntry(call.name, call.command, now)]
                    ELSE AppendErr(call, "Io")
    /\ UNCHANGED <<state, pc, scan, net, files, home, app, procs, events>>

\* NamedTempFile::new_in(rc_dir)
CreateTemp ==
    /\ call.op = "append_alias" /\ call.pc = "temp"
    /\ \E created \in BOOLEAN :
         IF created
         THEN /\ home' = [home EXCEPT !.temp = Some(<<>>)]
              /\ call' = [call EXCEPT !.pc = "write"]
         ELSE /\ home' = home
              /\ call' = AppendErr(call, "FileOperation")
    /\ UNCHANGED <<state, pc, scan, net, files, clock, app, procs, events>>

\* temp_file.write_all(current_content.as_bytes())
WriteContent ==
    /\ call.op = "append_alias" /\ call.pc = "write"
    /\ \E written \in BOOLEAN :
         IF written
         THEN /\ home' = write_all(home, call.current_content)
              /\ call' = [call EXCEPT !.pc = "entry"]
         ELSE /\ home' = drop_temp(write_failed(home, call.current_content))
              /\ call' = AppendErr(call, "FileOperation")
    /\ UNCHANGED <<state, pc, scan, net, files, clock, app, procs, events>>

\* temp_file.write_all(alias_entry.as_bytes())
WriteEntry ==
    /\ call.op = "append_alias" /\ call.pc = "entry"
    /\ \E written \in BOOLEAN :
         IF written
         THEN /\ home' = write_all(home, call.alias_entry)
              /\ call' = [call EXCEPT !.pc = "flush"]
         ELSE /\ home' = drop_temp(write_failed(home, call.alias_entry))
              /\ call' = AppendErr(call, "FileOperation")
    /\ UNCHANGED <<state, pc, scan, net, files, clock, app, procs, events>>

\* temp_file.flush()
Flush ==
    /\ call.op = "append_alias" /\ call.pc = "flush"
    /\ \E flushed \in BOOLEAN :
         IF flushed
         THEN /\ home' = home
              /\ call' = [call EXCEPT !.pc = "persist"]
         ELSE /\ home' = drop_temp(home)
              /\ call' = AppendErr(call, "FileOperation")
    /\ UNCHANGED <<state, pc, scan, net, files, clock, app, procs, events>>

\* temp_file.persist(rc_file) and Ok(backup_path)
Persist ==
    /\ call.op = "append_alias" /\ call.pc = "persist"
    /\ \E renamed \in BOOLEAN :
         IF renamed
         THEN /\ home' = persist(home)
              /\ call' = [call EXCEPT !.pc = "done",
                            !.result = Some([ok |-> TRUE, backup |-> call.backup,
                                             error |-> ""])]
         ELSE /\ home' = drop_temp(home)
              /\ call' = AppendErr(call, "FileOperation")
    /\ UNCHANGED <<state, pc, scan, net, files, clock, app, procs, events>>

InitAppend == InitRc

NextAppend ==
    \/ AppendBegin
    \/ CreateBackup
    \/ ReadContent
    \/ CreateTemp
    \/ WriteContent
    \/ WriteEntry
    \/ Flush
    \/ Persist

SpecAppend == InitAppend /\ [][NextAppend]_vars

(***************************************************************************)
(* Targets as they are typed: the target field starts empty for a          *)
(* QuickScan or a CustomRange, is typed into, submitted and left by back,  *)
(* and the scan that is confirmed runs step by step                        *)
(***************************************************************************)
InitTargets ==
    /\ state \in {EnteringTarget(st, <<>>) : st \in {"QuickScan", "CustomRange"}}
    /\ pc = "idle"
    /\ scan = NoScan
    /\ net = NoNet
    /\ files = {}
    /\ clock = 0
    /\ app = App_new
    /\ procs = NoProcs
    /\ events = NoEvents
    /\ home = NoHome
    /\ call = NoCall

NextTargets ==
    \/ HandleChar
    \/ HandleBackspace
    \/ AdvanceToOptions
    \/ AdvanceFromPortRange
    \/ AdvanceToConfirmation
    \/ GoBack
    \/ ExecBegin
    \/ Resolve
    \/ Progress
    \/ Probe
    \/ LoopExit
    \/ Return

SpecTargets == InitTargets /\ [][NextTargets]_vars

(***************************************************************************)
(* The application key by key: App::handle_key on the state the app is in. *)
(* The RC file is appended to while it has room, and up to MaxKills kill    *)
(* actions are executed                                                    *)
(***************************************************************************)
\* most kill actions executed in one run
MaxKills == 1

\* the keys pressed: keys that the handlers name
AppKeys ==
    {Key("Up"), Key("Down"), Key("Enter"), Key("Esc"), Key("Backspace"),
     CharKey("y"), CharKey("n")}

\* the home directory when the app starts: no RC file, or one of three lines
\* that defines the alias y
AppHomes == {NoHome, Home(<<"#", " ", "r", "c", "\n", "a", "l", "i", "a", "s", " ", "y", "=", "'", "l", "s", "'", "\n", "P", "S", "1", "=", "'", "$", " ", "'", "\n">>)}

\* App::handle_key(key) is the call that is made
HandleKeyCall(key) ==
    [op |-> "handle_key", name |-> <<>>, command |-> <<>>, result |-> None, key |-> key]

IsFeature(tag) == app.state.tag = "FeatureActive" /\ app.state.feature.tag = tag

\* the choices of the environment where the handler asks it, one otherwise
Asked(asks, choices) == IF asks THEN choices ELSE {CHOOSE c \in choices : TRUE}

\* handle_key in AppState::MainMenu
MainMenuKey(key) ==
    /\ app.state.tag = "MainMenu"
    /\ \E env \in Asked(key.code = "Enter", Envs),
          opened \in Asked(key.code = "Enter", BOOLEAN) :
          app' = handle_main_menu_key(app, key, home, env, opened)
    /\ UNCHANGED <<home, procs, clock>>

\* handle_key in ActiveFeature::AliasManager: the key goes to the manager,
\* the exit command is set once the alias has been created
AliasManagerKey(key) ==
    /\ IsFeature("AliasManager")
    /\ LET m == app.state.feature.manager
       IN  /\ m.state.tag = "Confirming" => HasRoom(home)
           /\ \E outcome \in Asked(m.state.tag = "Confirming", AppendOutcomes),
                 backup_now \in Asked(m.state.tag = "Confirming", clock..MaxClock) :
                \E entry_now \in Asked(m.state.tag = "Confirming", backup_now..MaxClock) :
                   \E r \in {handle_alias_manager_key_static(key, m, home, outcome,
                                                             backup_now, entry_now)} :
                   LET created == AliasManager_is_done(r.manager)
                                  /\ r.manager.state.tag = "Success"
                                  /\ r.manager.rc_file # None
                       after == [app EXCEPT
                                   !.state.feature.manager = r.manager,
                                   !.exit_command =
                                       IF created
                                       THEN Some(SourceCommand(r.manager.rc_file[1]))
                                       ELSE @]
                   IN  /\ app' = return_to_menu(after, r.return_to_menu)
                       /\ home' = r.home
                       /\ clock' = IF r.home # home THEN entry_now ELSE clock
    /\ UNCHANGED procs

\* handle_key in ActiveFeature::ProcessManager
ProcessManagerKey(key) ==
    /\ IsFeature("ProcessManager")
    /\ LET m == app.state.feature.manager
       IN  /\ m.state.tag = "Confirming" => Len(procs) < MaxKills
           /\ \E ran \in Asked(m.state.tag = "Confirming", BOOLEAN) :
                \E r \in {handle_process_manager_key_static(key, m, procs, ran)} :
                    /\ app' = return_to_menu(
                                 [app EXCEPT !.state.feature.manager = r.manager],
                                 r.return_to_menu)
                    /\ procs' = r.procs
    /\ UNCHANGED <<home, clock>>

\* handle_key in ActiveFeature::BookmarkManager: the app quits once the
\* bookmark has been created
BookmarkManagerKey(key) ==
    /\ IsFeature("BookmarkManager")
    /\ LET m == app.state.feature.manager
       IN  /\ m.state.tag = "Confirming" => HasRoom(home)
           /\ \E removes \in Asked(m.state.tag = "Confirming", BOOLEAN),
                 outcome \in Asked(m.state.tag = "Confirming", AppendOutcomes),
                 backup_now \in Asked(m.state.tag = "Confirming", clock..MaxClock) :
                \E entry_now \in Asked(m.state.tag = "Confirming", backup_now..MaxClock) :
                   \E r \in {handle_bookmark_manager_key_static(key, m, home, removes,
                                                                outcome, backup_now,
                                                                entry_now)} :
                   LET after == [app EXCEPT
                                   !.state.feature.manager = r.manager,
                                   !.should_quit = IF r.exit_app THEN TRUE ELSE @,
                                   !.exit_command =
                                       IF r.exit_app /\ r.manager.rc_file # None
                                       THEN Some(SourceCommand(r.manager.rc_file[1]))
                                       ELSE @]
                   IN  /\ app' = return_to_menu(after, r.return_to_menu)
                       /\ home' = r.home
                       /\ clock' = IF r.home # home THEN entry_now ELSE clock
    /\ UNCHANGED procs

\* handle_key in ActiveFeature::UsageViewer
UsageViewerKey(key) ==
    /\ IsFeature("UsageViewer")
    /\ \E opened \in Asked(app.state.feature.manager.state.tag = "Ready", BOOLEAN) :
          \E r \in {handle_usage_viewer_key_static(key, app.state.feature.manager,
                                                    opened)} :
              app' = return_to_menu([app EXCEPT !.state.feature.manager = r.viewer],
                                    r.return_to_menu)
    /\ UNCHANGED <<home, procs, clock>>

\* handle_key in ActiveFeature::Placeholder: only Esc does something
PlaceholderKey(key) ==
    /\ IsFeature("Placeholder")
    /\ app' = return_to_menu(app, key.code = "Esc")
    /\ UNCHANGED <<home, procs, clock>>

\* App::handle_key(): AppState::Exiting, in which keys are ignored, is never
\* entered
HandleKey(key) ==
    \/ MainMenuKey(key)
    \/ AliasManagerKey(key)
    \/ ProcessManagerKey(key)
    \/ BookmarkManagerKey(key)
    \/ UsageViewerKey(key)
    \/ PlaceholderKey(key)

\* the key would be typed into a text field of the alias manager
IsTyped(key) ==
    /\ key.code = "Char"
    /\ IsFeature("AliasManager")
    /\ app.state.feature.manager.state.tag \in {"EnteringName", "EnteringCommand"}

\* a key is handled while the app has not been told to quit; the text fields
\* of the alias manager are left empty
KeyPressed(keys) ==
    /\ ~app.should_quit
    /\ \E key \in keys :
          /\ ~IsTyped(key)
          /\ HandleKey(key)
          /\ call' = HandleKeyCall(key)
    /\ UNCHANGED <<state, pc, scan, net, files, events>>

InitMenu ==
    /\ state = new
    /\ pc = "idle"
    /\ scan = NoScan
    /\ net = NoNet
    /\ files = {}
    /\ clock = 0
    /\ app = App_new
    /\ procs = NoProcs
    /\ events = NoEvents
    /\ home \in AppHomes
    /\ call = NoCall

NextMenu == KeyPressed(AppKeys)

SpecMenu == InitMenu /\ [][NextMenu]_vars

(***************************************************************************)
(* The cursors: the operations that move a selection, each as one call, on *)
(* a Scanner, on the MenuState of the app and on its ProcessManager        *)
(***************************************************************************)
\* largest index handed to MenuState::select
MaxSelectIndex == 12

\* the app after Down and Enter: the process manager is the active feature
AppInProcessManager ==
    [App_new EXCEPT !.menu_state = MenuState_next(@),
                    !.state = FeatureActive(ActiveFeature("ProcessManager",
                                                          ProcessManager_new))]

InitCursors ==
    /\ state \in {new} \cup OptionEntries
    /\ pc = "idle"
    /\ scan = NoScan
    /\ net = NoNet
    /\ files = {}
    /\ clock = 0
    /\ app = AppInProcessManager
    /\ procs = NoProcs
    /\ events = NoEvents
    /\ home = NoHome
    /\ call = NoCall

\* a call on the MenuState of the app
MenuCall(after) ==
    /\ app' = [app EXCEPT !.menu_state = after]
    /\ UNCHANGED <<state, pc, scan, net, files, clock, home, call, procs, events>>

MenuPrevious == MenuCall(MenuState_previous(app.menu_state))
MenuNext == MenuCall(MenuState_next(app.menu_state))
MenuSelect == \E index \in 0..MaxSelectIndex : MenuCall(select(app.menu_state, index))
MenuReset == MenuCall(reset(app.menu_state))

\* a call on the ProcessManager of the app
ManagerCall(after) ==
    /\ IsFeature("ProcessManager")
    /\ app' = [app EXCEPT !.state.feature.manager = after]
    /\ UNCHANGED <<state, pc, scan, net, files, clock, home, call, procs, events>>

ManagerPrevious == ManagerCall(ProcessManager_previous(app.state.feature.manager))
ManagerNext == ManagerCall(ProcessManager_next(app.state.feature.manager))
ManagerConfirmSelection == ManagerCall(confirm_selection(app.state.feature.manager))
ManagerGoBack ==
    ManagerCall(ProcessManager_go_back(app.state.feature.manager, procs).manager)

NextCursors ==
    \/ Previous
    \/ Next_
    \/ ConfirmScanType
    \/ ToggleOption
    \/ GoBack
    \/ MenuPrevious
    \/ MenuNext
    \/ MenuSelect
    \/ MenuReset
    \/ ManagerPrevious
    \/ ManagerNext
    \/ ManagerConfirmSelection
    \/ ManagerGoBack

SpecCursors == InitCursors /\ [][NextCursors]_vars

(***************************************************************************)
(* The alias manager call by call: an AliasManager as new() makes it, on   *)
(* which initialize, handle_char, handle_backspace, advance and go_back    *)
(* are called in any order; the fields take up to MaxFieldLen characters   *)
(***************************************************************************)
\* longest text typed into a field of the alias manager
MaxFieldLen == 2

\* the characters typed
AliasChars == {"y", "1", " "}

InitAlias ==
    /\ state = new
    /\ pc = "idle"
    /\ scan = NoScan
    /\ net = NoNet
    /\ files = {}
    /\ clock = 0
    /\ app = [App_new EXCEPT !.state =
                FeatureActive(ActiveFeature("AliasManager", AliasManager_new))]
    /\ procs = NoProcs
    /\ events = NoEvents
    /\ home \in AppHomes
    /\ call = NoCall

\* a call on the AliasManager
AliasCall(op, after) ==
    /\ app' = [app EXCEPT !.state.feature.manager = after]
    /\ call' = [NoCall EXCEPT !.op = op]
    /\ UNCHANGED <<state, pc, scan, net, files, procs, events>>

Initialize ==
    /\ \E env \in Envs :
          AliasCall("initialize", initialize(app.state.feature.manager, home, env).manager)
    /\ UNCHANGED <<home, clock>>

AliasHandleChar ==
    /\ app.state.feature.manager.state.tag \in {"EnteringName", "EnteringCommand"}
          => Len(app.state.feature.manager.state.input) < MaxFieldLen
    /\ \E c \in AliasChars :
          AliasCall("handle_char", AliasManager_handle_char(app.state.feature.manager, c))
    /\ UNCHANGED <<home, clock>>

AliasHandleBackspace ==
    /\ AliasCall("handle_backspace",
                 AliasManager_handle_backspace(app.state.feature.manager))
    /\ UNCHANGED <<home, clock>>

AliasAdvance ==
    /\ app.state.feature.manager.state.tag = "Confirming" => HasRoom(home)
    /\ \E outcome \in AppendOutcomes, backup_now \in clock..MaxClock :
         \E entry_now \in backup_now..MaxClock :
            \E r \in {advance(app.state.feature.manager, home, outcome, backup_now,
                              entry_now)} :
               /\ AliasCall("advance", r.manager)
               /\ home' = r.home
               /\ clock' = IF r.home # home THEN entry_now ELSE clock

AliasGoBack ==
    /\ AliasCall("go_back", AliasManager_go_back(app.state.feature.manager))
    /\ UNCHANGED <<home, clock>>

NextAlias ==
    \/ Initialize
    \/ AliasHandleChar
    \/ AliasHandleBackspace
    \/ AliasAdvance
    \/ AliasGoBack

SpecAlias == InitAlias /\ [][NextAlias]_vars

(***************************************************************************)
(* The event thread, the channel and the main loop of run(): the thread    *)
(* reads up to MaxEvents events from the terminal and sends ticks, the     *)
(* channel holds up to MaxChan events, and the main loop handles them      *)
(* until the app quits, which drops the receiver                           *)
(***************************************************************************)
\* most events read from the terminal in one run
MaxEvents == 4

\* most events waiting in the channel
MaxChan == 2

\* the events that event::read() gives and the thread sends on
TerminalEvents ==
    {KeyEvent(Key("Down")), KeyEvent(Key("Enter")), KeyEvent(Key("Esc")),
     MouseEvent, ResizeEvent}

InitEvents ==
    /\ state = new
    /\ pc = "idle"
    /\ scan = NoScan
    /\ net = NoNet
    /\ files = {}
    /\ clock = 0
    /\ app = App_new
    /\ procs = NoProcs
    /\ events = NoEvents
    /\ home \in AppHomes
    /\ call = NoCall

\* the channel has room, or the send fails anyway
HasSpace == events.rx = "open" => Len(events.chan) < MaxChan

\* the first half of the loop of the thread: event::poll(timeout) says that
\* nothing is there, or event::read() gives something that is not sent on;
\* or it gives a key, a mouse or a resize event, which is sent
ThreadPoll ==
    /\ events.thread = "poll"
    /\ \/ events' = [events EXCEPT !.thread = "tick"]
       \/ /\ Len(events.read) < MaxEvents
          /\ HasSpace
          /\ \E event \in TerminalEvents :
                /\ IsSent(event)
                /\ events' = sent(send([events EXCEPT !.read = Append(@, event)], event),
                                  "tick")
    /\ UNCHANGED <<state, pc, scan, net, files, clock, home, call, app, procs>>

\* the second half: a tick is sent when tick_rate has passed
ThreadTick ==
    /\ events.thread = "tick"
    /\ \/ events' = [events EXCEPT !.thread = "poll"]
       \/ /\ HasSpace
          /\ events' = sent(send(events, TickEvent), "poll")
    /\ UNCHANGED <<state, pc, scan, net, files, clock, home, call, app, procs>>

\* App::handle_event(event): keys go to handle_key, the rest is ignored
HandleEvent(event) ==
    \/ /\ event.kind = "Key"
       /\ HandleKey(event.key)
       /\ call' = HandleKeyCall(event.key)
    \/ /\ event.kind # "Key"
       /\ UNCHANGED <<app, home, procs, clock, call>>

\* one turn of the loop of run(): event_handler.next() takes the first event
\* of the channel, the app handles it, and if it is told to quit the loop
\* ends, the exit command is written if the file can be, and the receiver is
\* dropped with the events that wait
MainLoop ==
    /\ events.rx = "open"
    /\ events.chan # <<>>
    /\ HandleEvent(Head(events.chan))
    /\ \E written \in Asked(app'.should_quit /\ app'.exit_command # None, BOOLEAN) :
          events' = [events EXCEPT
                       !.chan = IF app'.should_quit THEN <<>> ELSE Tail(@),
                       !.handled = IF Head(events.chan).kind = "Tick" THEN @
                                   ELSE Append(@, Head(events.chan)),
                       !.rx = IF app'.should_quit THEN "dropped" ELSE @,
                       !.exit_file = IF app'.should_quit /\ written
                                     THEN app'.exit_command ELSE @]
    /\ UNCHANGED <<state, pc, scan, net, files>>

NextEvents ==
    \/ ThreadPoll
    \/ ThreadTick
    \/ MainLoop

SpecEvents == InitEvents /\ [][NextEvents]_vars

(***************************************************************************)
(* Properties                                                              *)
(***************************************************************************)
\* the scan stepped through the loop ends as execute_scan taken as one call
\* does for some choice of the environment
LoopAgreesWithCall ==
    (pc = "idle" /\ scan.result # "none") =>
        \E lookup \in LookupsFor(scan.entry), reach \in ReachFor(scan.ports),
           disk \in DisksFor(scan.entry), now \in 0..MaxClock :
            execute_scan(scan.entry, {}, lookup, reach, disk, now)
              = [state |-> state, files |-> files, net |-> net]

\* strictly ascending sequence of numbers
Ascending(v) == \A i \in 1..(Len(v) - 1) : v[i] < v[i + 1]

\* the port numbers of a list of PortInfo
PortNumbers(infos) == [i \in 1..Len(infos) |-> infos[i].port]

\* C1: submit in EnteringTarget (advance_to_options): a valid trimmed input
\* leads to EnteringPortRange with an empty port-range input exactly when the
\* scan type is CustomRange and otherwise to SelectingOptions with both
\* options off and no custom ports; an invalid one leads to Error; there is
\* no other successor.
C1_SubmitTarget ==
    [][(state.tag = "EnteringTarget" /\ AdvanceToOptions) =>
         LET target == Trim(state.input)
         IN  /\ state'.tag \in {"EnteringPortRange", "SelectingOptions", "Error"}
             /\ validate_target(target).ok =>
                  /\ state'.tag = "EnteringPortRange" <=> state.scan_type = "CustomRange"
                  /\ state'.tag = "EnteringPortRange" =>
                       state'.input = <<>> /\ state'.target = target
                  /\ state'.tag # "EnteringPortRange" =>
                       /\ state'.tag = "SelectingOptions"
                       /\ state'.scan_type = state.scan_type
                       /\ state'.target = target
                       /\ ~state'.service_detection
                       /\ ~state'.save_to_file
                       /\ state'.custom_ports = None
             /\ ~validate_target(target).ok => state'.tag = "Error"]_vars

C1_Witness ==
    /\ state.tag = "SelectingOptions"
    /\ state.scan_type = "StandardScan"
    /\ state.target = <<"a", ".", "a">>
    /\ ~state.service_detection /\ ~state.save_to_file /\ state.custom_ports = None

\* C2 as stated: when the scan does not fail, execute_scan ends in
\* ViewingResults (the open-port list, scroll 0) if a port was found open and
\* in Success if none was; Error only when the scan fails.
C2_Original ==
    [][Return =>
         /\ scan.result = "ok" /\ scan.open_ports # <<>> =>
              state' = ViewingResults(scan.entry.target, scan.open_ports, 0)
         /\ scan.result = "ok" /\ scan.open_ports = <<>> => state'.tag = "Success"
         /\ state'.tag = "Error" => scan.result = "err"]_vars

\* C2 amended: execute_scan ends in Error when the scan fails and also when
\* save_to_file is on and writing the report fails; in every other case it
\* ends in ViewingResults (the open-port list, scroll 0) if a port was found
\* open and in Success if none was.
C2_ScanOutcome ==
    [][Return =>
         /\ state'.tag \in {"ViewingResults", "Success", "Error"}
         /\ scan.result = "err" =>
              state'.tag = "Error" /\ state'.message.prefix = "Scan failed: "
         /\ scan.result = "ok" /\ ~scan.entry.save_to_file => state'.tag # "Error"
         /\ scan.result = "ok" /\ state'.tag = "Error" =>
              /\ scan.entry.save_to_file
              /\ state'.message.prefix = "Scan completed but failed to save results: "
              /\ \A f \in files' : ~f.complete
         /\ scan.result = "ok" /\ state'.tag # "Error" =>
              /\ scan.entry.save_to_file => \E f \in files' : f.complete
              /\ IF scan.open_ports # <<>>
                 THEN state' = ViewingResults(scan.entry.target, scan.open_ports, 0)
                 ELSE state'.tag = "Success"]_vars

C2_Witness ==
    /\ pc = "idle"
    /\ scan.result = "ok"
    /\ scan.open_ports # <<>>
    /\ state.tag = "Error"

\* C3: a new Scanner is in SelectingScanType; is_done holds exactly in
\* Success and Error; in these two states every operation of the scanner
\* leaves the state as it is.
C3_Terminal ==
    /\ state = SelectingScanType(0)
    /\ [](is_done(state) <=> state.tag \in {"Success", "Error"})
    /\ [](is_done(state) =>
            /\ previous(state) = state
            /\ next(state) = state
            /\ confirm_scan_type(state) = state
            /\ \A c \in TargetChars : handle_char(state, c) = state
            /\ handle_backspace(state) = state
            /\ advance_to_options(state) = state
            /\ advance_from_port_range(state) = state
            /\ \A c \in RangeChars : handle_port_range_char(state, c) = state
            /\ handle_port_range_backspace(state) = state
            /\ toggle_option(state) = state
            /\ advance_to_confirmation(state) = state
            /\ go_back(state) = state
            /\ ~ENABLED ExecuteScan)
    /\ [][is_done(state) => state' = state]_vars

C3_Witness == state.tag = "Success" /\ net.connects > 0

\* the number a run of digits denotes
RECURSIVE Val(_)
Val(ds) == IF ds = <<>> THEN 0
           ELSE 10 * Val(SubSeq(ds, 1, Len(ds) - 1)) + DigitVal(ds[Len(ds)])

\* the ports a token of an accepted expression denotes: one port, or every
\* port from start to end
TokenPorts(tok) ==
    LET t == Trim(tok)
        i == IndexOf(t, "-")
    IN  IF i = 0 THEN {Val(t)}
        ELSE Val(Trim(SubSeq(t, 1, i - 1)))..Val(Trim(SubSeq(t, i + 1, Len(t))))

Denoted(input) == UNION {TokenPorts(tok) : tok \in Range(Split(input, ","))}

\* C4: for every expression that parse_port_range accepts, the list is
\* exactly the set of ports its comma-separated tokens denote, strictly
\* ascending (so without duplicates), every port in 1..65535; "1-3,2,5-5"
\* gives [1,2,3,5].
C4_ParsedPorts ==
    /\ parse_port_range(Example135) = Ok(<<1, 2, 3, 5>>)
    /\ [][(state.tag = "EnteringPortRange" /\ state'.tag = "SelectingOptions") =>
            LET ports == state'.custom_ports[1]
            IN  /\ Range(ports) = Denoted(state.input)
                /\ Ascending(ports)
                /\ \A i \in 1..Len(ports) : ports[i] \in 1..U16Max]_vars

C4_Witness ==
    /\ state.tag = "SelectingOptions"
    /\ state.custom_ports = Some(<<1, 2, 3, 65534, 65535>>)

\* a piece of a token that is a number: one or more digits
IsNumber(txt) == txt # <<>> /\ \A i \in 1..Len(txt) : txt[i] \in Digits

\* the numbers of a token: the token itself, or the parts around its hyphens
TokenNumbers(tok) ==
    LET t == Trim(tok)
        parts == Split(t, "-")
    IN  [i \in 1..Len(parts) |-> Trim(parts[i])]

\* a token that the claim says must make the expression fail
BadToken(tok) ==
    LET nums == TokenNumbers(tok)
    IN  \/ Len(nums) > 2
        \/ \E i \in 1..Len(nums) : ~IsNumber(nums[i])
        \/ \E i \in 1..Len(nums) : Val(nums[i]) > U16Max
        \/ Val(nums[1]) = 0
        \/ Len(nums) = 2 /\ Val(nums[1]) > Val(nums[2])

BadExpression(input) ==
    input = <<>> \/ \E tok \in Range(Split(input, ",")) : BadToken(tok)

\* C5: parse_port_range fails, and the submit in EnteringPortRange leads to
\* Error and not to SelectingOptions, for every expression with a range
\* token of more than two hyphen-separated parts, a token that is no number,
\* a number above 65535, port 0 as single port or range start, a range with
\* start > end, and for the empty expression; it never succeeds with an
\* empty list; "0-10" and "100-50" fail.
C5_ParseFails ==
    /\ ~parse_port_range(<<"0", "-", "1", "0">>).ok
    /\ ~parse_port_range(<<"1", "0", "0", "-", "5", "0">>).ok
    /\ [][(state.tag = "EnteringPortRange" /\ AdvanceFromPortRange) =>
            /\ state'.tag \in {"SelectingOptions", "Error"}
            /\ BadExpression(state.input) => state'.tag = "Error"
            /\ state'.tag = "SelectingOptions" => state'.custom_ports[1] # <<>>]_vars

C5_Witness ==
    /\ state.tag = "Error"
    /\ state.message.text = "Invalid port number: "
    /\ state.message.arg = <<"6", "5", "5", "3", "6">>

\* C6 as stated: for every scan type the ports are probed in ascending port
\* order and the open-port list of ViewingResults is strictly ascending.
C6_Original ==
    /\ pc = "probe" /\ scan.idx > 0 => scan.ports[scan.idx] < scan.ports[scan.idx + 1]
    /\ Ascending(PortNumbers(scan.open_ports))
    /\ state.tag = "ViewingResults" => Ascending(PortNumbers(state.open_ports))

\* C7 as stated: for a target given as an IPv4 or IPv6 literal the result
\* holds exactly the ports of the list on which a connection to the target
\* succeeds within the timeout.
C7_Original ==
    (pc = "return" /\ scan.result = "ok" /\ IsIpAddr(scan.entry.target)) =>
        PortNumbers(scan.open_ports) = SelectSeq(scan.ports, LAMBDA p : p \in scan.reach)

\* C8: every PortInfo of the result has state Open and names a port of the
\* list whose connection succeeded; a failed connection adds no entry, no
\* Closed or Filtered entry, and does not make the scan fail.
C8_OnlyOpen ==
    /\ [](\A i \in 1..Len(scan.open_ports) :
            LET e == scan.open_ports[i]
            IN  /\ e.state = "Open"
                /\ e.port \in scan.reach
                /\ \E k \in 1..scan.idx : scan.ports[k] = e.port)
    /\ [](Len(scan.open_ports) <= net.connects)
    /\ [](state.tag = "ViewingResults" => state.open_ports = scan.open_ports)
    /\ [][(Probe /\ scan.ports[scan.idx + 1] \notin scan.reach) =>
            /\ scan'.open_ports = scan.open_ports
            /\ scan'.result = scan.result
            /\ pc' = "loop"]_vars
    /\ [](scan.result = "err" => scan.idx = 0)

C8_Witness ==
    /\ pc = "return"
    /\ scan.result = "ok"
    /\ Len(scan.open_ports) = 1
    /\ net.connects = 92

\* C9: across one scan of N ports the progress recorded in the Scanning
\* state never decreases, total is N throughout, completed never exceeds
\* total, and the last value of a scan that completes is (N, N).
C9_Progress ==
    /\ [](state.tag = "Scanning" =>
            /\ state.total = Len(scan.ports)
            /\ state.progress <= state.total)
    /\ [][(state.tag = "Scanning" /\ state'.tag = "Scanning") =>
            /\ state'.progress >= state.progress
            /\ state'.total = state.total]_vars
    /\ []((pc = "return" /\ scan.result = "ok") =>
            /\ state.tag = "Scanning"
            /\ state.progress = Len(scan.ports)
            /\ state.total = Len(scan.ports))

C9_Witness ==
    /\ pc = "return"
    /\ scan.result = "ok"
    /\ state.tag = "Scanning"
    /\ state.progress = 92 /\ state.total = 92

\* C10: if the target cannot be resolved (lookup error or no address) no
\* port is probed, no connection is tried, no report file is written even
\* with save_to_file on, and the workflow ends in Error; an IP literal is
\* resolved without a lookup and its resolution never fails.
C10_ResolutionFailure ==
    /\ scan.result = "err" =>
         /\ scan.idx = 0
         /\ net.connects = 0
         /\ files = {}
         /\ state.tag \in {"Scanning", "Error"}
         /\ state.tag = "Scanning" => state.progress = 0
         /\ pc = "idle" => state.tag = "Error"
         /\ pc \in {"return", "idle"}
    /\ (scan.result # "none" \/ pc \in {"loop", "probe"}) /\ IsIpAddr(scan.entry.target) =>
         /\ net.lookups = 0
         /\ scan.result # "err"
    /\ net.lookups <= 1

C10_Witness ==
    /\ pc = "idle"
    /\ scan.result = "err"
    /\ scan.entry.save_to_file
    /\ state.tag = "Error"
    /\ net.lookups = 1

\* the hostname rules as the claim words them, lengths counted in characters
ClaimLabelOk(label) ==
    /\ Len(label) \in 1..63
    /\ \A i \in 1..Len(label) : IsAlphanumeric(label[i]) \/ label[i] = "-"
    /\ label[1] # "-"
    /\ label[Len(label)] # "-"

ClaimHostnameOk(target) ==
    /\ Len(target) <= 253
    /\ \A label \in Range(Split(target, ".")) : ClaimLabelOk(label)

ClaimTargetOk(target) ==
    /\ target # <<>>
    /\ IsIpAddr(target) \/ ClaimHostnameOk(target)

\* C11 as stated: the submit of a target is accepted exactly when the trimmed
\* input is not empty and either parses as an IPv4 or IPv6 literal or has at
\* most 253 characters and only labels of 1 to 63 characters, made of
\* alphanumerics and hyphens, that neither start nor end with a hyphen.
C11_Original ==
    [][(state.tag = "EnteringTarget" /\ AdvanceToOptions) =>
         (state'.tag # "Error" <=> ClaimTargetOk(Trim(state.input)))]_vars

\* C12 as stated: a scan with save_to_file never writes to the report file
\* of another scan and never overwrites an existing report: every report in
\* the directory is still there, as it was, after any scan.
C12_Original == [][\A f \in files : f \in files']_vars

\* C13: a scan whose probing succeeds and whose report cannot be written
\* ends in Error with the message "Scan completed but failed to save
\* results", a scan whose probing (resolution) fails ends in Error with the
\* message "Scan failed"; the two messages differ and tell the two failures
\* apart, and neither failure ends in Success or ViewingResults.
C13_SaveFailure ==
    (pc = "idle" /\ scan.result # "none") =>
        /\ scan.result = "err" =>
              state = Error(Message("Scan failed: ", scan.err.text, scan.err.arg))
        /\ (scan.result = "ok" /\ scan.entry.save_to_file
                /\ \A f \in files : ~f.complete) =>
              /\ state.tag = "Error"
              /\ state.message.prefix = "Scan completed but failed to save results: "
        /\ state.tag = "Error" =>
              /\ state.message.prefix \in
                    {"Scan failed: ", "Scan completed but failed to save results: "}
              /\ state.message.prefix = "Scan failed: " <=> scan.result = "err"

C13_Witness ==
    /\ pc = "idle"
    /\ scan.result = "ok"
    /\ state.tag = "Error"
    /\ state.message.prefix = "Scan completed but failed to save results: "
    /\ \E f \in files : ~f.complete

\* the indexes the operations use are inside their vectors:
\* ScanType::all()[selected], ScanOption::all()[selected], the scroll offset
IndexesInRange(s) ==
    /\ s.tag = "SelectingScanType" => s.selected \in 0..(Len(ScanTypeAll) - 1)
    /\ s.tag = "SelectingOptions" => s.selected \in 0..(Len(ScanOptionAll) - 1)
    /\ s.tag = "ViewingResults" => s.scroll \in 0..(Len(s.open_ports) - 1)

\* the operator can continue and go back from an entry state (from the
\* first state back is the outer menu); a result or message state is
\* acknowledged
Navigable(s) ==
    CASE s.tag = "SelectingScanType" -> confirm_scan_type(s).tag = "EnteringTarget"
      [] s.tag = "EnteringTarget" ->
            /\ go_back(s).tag = "SelectingScanType"
            /\ advance_to_options(s).tag # "EnteringTarget"
      [] s.tag = "EnteringPortRange" ->
            /\ go_back(s).tag = "EnteringTarget"
            /\ advance_from_port_range(s).tag # "EnteringPortRange"
      [] s.tag = "SelectingOptions" ->
            /\ go_back(s).tag \in {"EnteringTarget", "EnteringPortRange"}
            /\ advance_to_confirmation(s).tag = "Confirming"
      [] s.tag = "Confirming" ->
            /\ go_back(s).tag = "SelectingOptions"
            /\ execute_scan(s, {}, [ok |-> FALSE, addrs |-> <<>>], {}, "written", 0).state.tag
                 \in {"Success", "Error"}
      [] s.tag = "ViewingResults" -> s.open_ports # <<>>
      [] s.tag \in {"Success", "Error"} -> is_done(s) /\ s.message.text # ""
      [] OTHER -> FALSE

\* C14: an invalid target, an invalid port range, a failed resolution and a
\* failed report write each lead to Error with a message that is not empty;
\* every index an operation uses is inside its vector, so no operation
\* aborts; every state the scanner is left in is one the operator can
\* continue from, go back from, or acknowledge.
C14_Recovered ==
    /\ [](pc = "idle" /\ IndexesInRange(state) /\ Navigable(state))
    /\ [][(state.tag = "EnteringTarget" /\ AdvanceToOptions
            /\ ~validate_target(Trim(state.input)).ok) =>
              state'.tag = "Error" /\ state'.message.text # ""]_vars
    /\ [][(state.tag = "EnteringPortRange" /\ AdvanceFromPortRange
            /\ ~parse_port_range(state.input).ok) =>
              state'.tag = "Error" /\ state'.message.text # ""]_vars
    /\ [](state.tag = "Confirming" =>
            \A lookup \in LookupOutcomes, disk \in DiskOutcomes :
               LET after == execute_scan(state, files, lookup, {}, disk, clock).state
                   resolved == resolve_target(state.target, lookup).ok
               IN  /\ after.tag \in {"Success", "Error"}
                   /\ (~resolved \/ (state.save_to_file /\ disk # "written")) =>
                         /\ after.tag = "Error"
                         /\ after.message.prefix # ""
                         /\ after.message.text # "")

C14_Witness ==
    /\ state.tag = "Error"
    /\ state.message.text = "Failed to resolve hostname: "
    /\ state.message.arg = <<"a", "-", "a">>

\* C15: go_back in EnteringPortRange leads to EnteringTarget with scan type
\* CustomRange and, as input, the target text that the submit accepted (the
\* trimmed input); the port-range text typed so far is not kept.
C15_BackFromPortRange ==
    /\ [](state.tag = "EnteringPortRange" => validate_target(state.target).ok)
    /\ [][(state.tag = "EnteringTarget" /\ state'.tag = "EnteringPortRange") =>
            state'.target = Trim(state.input)]_vars
    /\ [][(state.tag = "EnteringPortRange" /\ GoBack) =>
            state' = EnteringTarget("CustomRange", state.target)]_vars

C15_Witness == state = EnteringTarget("CustomRange", <<"a", ".", "b">>)

\* SelectingOptions as a submit enters it: cursor on the first option, both
\* options off
FreshOptions(s) ==
    /\ s.tag = "SelectingOptions"
    /\ s.selected = 0
    /\ ~s.service_detection
    /\ ~s.save_to_file

\* C16: go_back in SelectingOptions leads to EnteringPortRange with the
\* target kept and an empty port-range input when the scan type is
\* CustomRange, and to EnteringTarget with the same scan type and an empty
\* input otherwise; neither state holds the options or the parsed ports, and
\* every submit that enters SelectingOptions again enters it with both
\* options off and with the ports of the new submit only.
C16_BackFromOptions ==
    /\ [][(state.tag = "SelectingOptions" /\ GoBack) =>
            state' = IF state.scan_type = "CustomRange"
                     THEN EnteringPortRange(state.target, <<>>)
                     ELSE EnteringTarget(state.scan_type, <<>>)]_vars
    /\ [][(state.tag = "EnteringPortRange" /\ state'.tag = "SelectingOptions") =>
            /\ FreshOptions(state')
            /\ state'.custom_ports = Some(parse_port_range(state.input).ports)]_vars
    /\ [](state.tag = "EnteringTarget" =>
            \A t \in {Text4, Text6, HostAB} :
               LET again == advance_to_options([state EXCEPT !.input = t])
               IN  again.tag = "SelectingOptions" =>
                     FreshOptions(again) /\ again.custom_ports = None)

C16_Witness ==
    state = SelectingOptions("CustomRange", Text4, 0, FALSE, FALSE, Some(<<1, 2>>))

\* the states that carry the two options
HasOptions(s) == s.tag \in {"SelectingOptions", "Confirming", "Scanning"}

\* C17: between two states that carry the options, service_detection and
\* save_to_file differ only by a toggle_option step inside SelectingOptions;
\* Confirming holds the values of the SelectingOptions it was confirmed from,
\* Scanning those of Confirming; services are annotated exactly when the
\* confirmed service_detection is on and a report is written only when the
\* confirmed save_to_file is on.
C17_OptionsFrozen ==
    /\ [][(HasOptions(state) /\ HasOptions(state')
            /\ <<state'.service_detection, state'.save_to_file>>
                 # <<state.service_detection, state.save_to_file>>) =>
              /\ state.tag = "SelectingOptions"
              /\ state' = toggle_option(state)]_vars
    /\ [][(state.tag = "SelectingOptions" /\ state'.tag = "Confirming") =>
            state' = Confirming(state.scan_type, state.target, state.service_detection,
                                state.save_to_file, state.custom_ports)]_vars
    /\ [](state.tag = "Scanning" =>
            /\ scan.entry.tag = "Confirming"
            /\ state.service_detection = scan.entry.service_detection
            /\ state.save_to_file = scan.entry.save_to_file)
    /\ [](\A i \in 1..Len(scan.open_ports) :
            scan.open_ports[i].service =
               IF scan.entry.service_detection
               THEN detect_service(scan.open_ports[i].port) ELSE None)
    /\ [](files # {} => pc = "idle" /\ scan.result = "ok" /\ scan.entry.save_to_file)
    /\ []((pc = "idle" /\ scan.result = "ok" /\ scan.entry.save_to_file) => files # {}
            \/ state.tag = "Error")

C17_Witness ==
    /\ state.tag = "ViewingResults"
    /\ scan.entry.service_detection
    /\ ~scan.entry.save_to_file
    /\ state.open_ports = <<PortInfo(22, Some("SSH"), "Open")>>
    /\ files = {}

\* C18: toggle_option in SelectingOptions stays in SelectingOptions and
\* flips the option under the cursor, service_detection at index 0 and
\* save_to_file at index 1; the other option, the cursor, the scan type,
\* the target and the custom ports stay; a second toggle_option gives the
\* state before the first.
C18_Toggle ==
    /\ [](state.tag = "SelectingOptions" =>
            LET once == toggle_option(state)
            IN  /\ once.tag = "SelectingOptions"
                /\ once.service_detection =
                      IF state.selected = 0 THEN ~state.service_detection
                      ELSE state.service_detection
                /\ once.save_to_file =
                      IF state.selected = 1 THEN ~state.save_to_file
                      ELSE state.save_to_file
                /\ once.selected = state.selected
                /\ once.scan_type = state.scan_type
                /\ once.target = state.target
                /\ once.custom_ports = state.custom_ports
                /\ once # state
                /\ toggle_option(once) = state)
    /\ [][(state.tag = "SelectingOptions" /\ ToggleOption) =>
            /\ state' = toggle_option(state)
            /\ state'.tag = "SelectingOptions"
            /\ state'.selected = state.selected
            /\ (state'.service_detection # state.service_detection) <=> state.selected = 0
            /\ (state'.save_to_file # state.save_to_file) <=> state.selected = 1]_vars

C18_Witness ==
    state = SelectingOptions("CustomRange", HostAB, 1, FALSE, TRUE, Some(<<22>>))

\* the service a result entry must carry
ExpectedService(port, service_detection) ==
    IF service_detection /\ detect_service(port) # None THEN detect_service(port) ELSE None

\* C19: every entry of the result is Open and carries the catalog name of
\* its port when service_detection is on and the catalog has the port, and no
\* service otherwise; an open port that the catalog lacks (port 2) is in the
\* result like any other and does not fail the scan; the report and the
\* display show the catalog name, or "unknown" for an entry without service.
C19_Service ==
    /\ detect_service(22) = Some("SSH")
    /\ detect_service(20) = Some("FTP Data")
    /\ detect_service(2) = None
    /\ [](\A i \in 1..Len(scan.open_ports) :
            LET e == scan.open_ports[i]
            IN  /\ e.state = "Open"
                /\ e.service = ExpectedService(e.port, scan.entry.service_detection))
    /\ []((pc = "return" /\ scan.result = "ok") =>
            \A p \in scan.reach :
               SocketAddrParses(scan.ip[1], p) =>
                  \E i \in 1..Len(scan.open_ports) : scan.open_ports[i].port = p)
    /\ [](state.tag = "ViewingResults" =>
            /\ state.open_ports = scan.open_ports
            /\ \A i \in 1..Len(state.open_ports) :
                  LET e == state.open_ports[i]
                      row == DisplayRows(state.open_ports)[i]
                  IN  /\ row.port = e.port
                      /\ row.state = "OPEN"
                      /\ row.service =
                            IF e.service = None THEN "unknown" ELSE e.service[1])
    /\ [](\A f \in files :
            f.complete =>
               /\ Len(f.lines) = Len(scan.open_ports)
               /\ \A i \in 1..Len(f.lines) :
                     LET e == scan.open_ports[i]
                     IN  /\ f.lines[i].port = e.port
                         /\ f.lines[i].service =
                               IF e.service = None THEN "unknown" ELSE e.service[1])

C19_Witness ==
    /\ state.tag = "ViewingResults"
    /\ state.open_ports = <<PortInfo(2, None, "Open"), PortInfo(22, Some("SSH"), "Open")>>
    /\ \E f \in files :
          /\ f.complete
          /\ f.lines = <<[port |-> 2, state |-> "open", service |-> "unknown"],
                         [port |-> 22, state |-> "open", service |-> "SSH"]>>

\* C20: the ports of a preset scan depend on the scan type alone: every
\* QuickScan the workflow can configure, whatever came before it, holds and
\* probes the same 14 ports, and every FullScan the 65535 ports 1..65535,
\* each once; no preset scan carries custom ports.
C20_PresetPorts ==
    /\ Len(get_ports("QuickScan")) = 14
    /\ Len(get_ports("FullScan")) = 65535
    /\ \A i \in 1..65535 : get_ports("FullScan")[i] = i
    /\ [](state.tag \in {"SelectingOptions", "Confirming"} =>
            /\ state.scan_type # "CustomRange" <=> state.custom_ports = None
            /\ state.scan_type # "CustomRange" => PortsOf(state) = get_ports(state.scan_type)
            /\ state.scan_type = "QuickScan" =>
                  PortsOf(state) =
                     <<21, 22, 23, 25, 53, 80, 110, 143, 443, 3306, 3389, 5432, 8080, 8443>>)
    /\ [][(state.tag = "Confirming" /\ state'.tag # "Confirming"
            /\ state.scan_type # "CustomRange" /\ net'.connects > 0) =>
            /\ net'.connects = Len(get_ports(state.scan_type))
            /\ state.scan_type = "QuickScan" => net'.connects = 14 /\ net'.last = 8443
            /\ state.scan_type = "FullScan" =>
                  net'.connects = 65535 /\ net'.last = 65535]_vars

C20_Witness ==
    /\ state.tag = "ViewingResults"
    /\ PortNumbers(state.open_ports) = <<2, 20, 22>>
    /\ net.connects = 65535
    /\ net.last = 65535

\* C21 as stated: the target part of every report file name holds only
\* alphanumeric characters and underscores, for an IPv4 literal, an IPv6
\* literal and a host name alike.
C21_Original ==
    \A f \in files :
       \A i \in 1..Len(f.name.target) :
          IsAlphanumeric(f.name.target[i]) \/ f.name.target[i] = "_"

\* C22: the scan is consumed inside execute_scan.  Whenever no call is in
\* progress the state is not Scanning, and the call returns into ViewingResults,
\* Success or Error; while the state is Scanning every other operation of the
\* Scanner (go_back included) leaves it as it is, and a step taken from a
\* Scanning state either keeps the scan (scan type, target, total, options and
\* custom ports unchanged) or ends it in one of the three final states.
ScanLeftAlone(s) ==
    /\ previous(s) = s
    /\ next(s) = s
    /\ confirm_scan_type(s) = s
    /\ handle_backspace(s) = s
    /\ advance_to_options(s) = s
    /\ advance_from_port_range(s) = s
    /\ handle_port_range_backspace(s) = s
    /\ toggle_option(s) = s
    /\ advance_to_confirmation(s) = s
    /\ go_back(s) = s
    /\ \A c \in TargetChars \cup RangeChars :
          handle_char(s, c) = s /\ handle_port_range_char(s, c) = s

C22_ScanConsumed ==
    /\ [](pc = "idle" => state.tag # "Scanning")
    /\ [](pc # "idle" => state.tag = "Scanning")
    /\ [](state.tag = "Scanning" => ScanLeftAlone(state))
    /\ [][state.tag = "Scanning" =>
            \/ /\ state'.tag = "Scanning"
               /\ [state' EXCEPT !.progress = 0] = [state EXCEPT !.progress = 0]
               /\ pc' # "idle"
            \/ /\ state'.tag \in {"ViewingResults", "Success", "Error"}
               /\ pc' = "idle"]_vars

C22_Witness ==
    /\ pc = "probe"
    /\ state.tag = "Scanning"
    /\ state.progress = 3
    /\ scan.idx = 2
    /\ Len(scan.open_ports) = 1

\* C23: validate_alias_name accepts a name exactly when the name is not
\* empty, does not start with a digit, holds only ASCII letters, digits and
\* underscores, and is not a reserved word of the shell; "ll", "my_alias" and
\* "alias123" are accepted, "", "123alias", "my-alias", "my alias" and "if"
\* are rejected.
ShellKeywords ==
    {<<"i", "f">>,
     <<"t", "h", "e", "n">>,
     <<"e", "l", "s", "e">>,
     <<"e", "l", "i", "f">>,
     <<"f", "i">>,
     <<"c", "a", "s", "e">>,
     <<"e", "s", "a", "c">>,
     <<"f", "o", "r">>,
     <<"s", "e", "l", "e", "c", "t">>,
     <<"w", "h", "i", "l", "e">>,
     <<"u", "n", "t", "i", "l">>,
     <<"d", "o">>,
     <<"d", "o", "n", "e">>,
     <<"i", "n">>,
     <<"f", "u", "n", "c", "t", "i", "o", "n">>,
     <<"t", "i", "m", "e">>}

ClaimNameOk(name) ==
    /\ Len(name) > 0
    /\ name[1] \notin Digits
    /\ \A i \in 1..Len(name) : name[i] \in AsciiLetters \cup Digits \cup {"_"}
    /\ name \notin ShellKeywords

DefinesAlias(content, name) ==
    \E i \in 1..Len(Lines(content)) :
       StartsWith(Trim(Lines(content)[i]), AliasKeyword \o name \o <<"=">>)

C24_Original ==
    (call.op = "check_duplicate_alias" /\ home.rc # None) =>
        /\ call.result[1].ok
        /\ call.result[1].val <=> DefinesAlias(home.rc[1], call.name)

\* C25: a successful append_alias(rc, name, command) leaves an RC file that
\* starts with all of its previous content, then a newline if that content was
\* not empty and did not end with one, then a blank line, the "Added by mode"
\* comment line and the line alias name='command', and nothing more; the backup
\* it returns exists and holds exactly the previous content.
AppendedTo(before, after, name, command) ==
    LET sep == IF Len(before) > 0 /\ before[Len(before)] # "\n" THEN <<"\n">> ELSE <<>>
        rest == SubSeq(after, Len(before) + Len(sep) + 1, Len(after))
    IN  /\ StartsWith(after, before \o sep)
        /\ EndsWith(rest, "\n")
        /\ Len(Lines(rest)) = 3
        /\ Lines(rest)[1] = <<>>
        /\ StartsWith(Lines(rest)[2], <<"#", " ", "A", "d", "d", "e", "d", " ", "b", "y", " ", "m", "o", "d", "e">>)
        /\ Lines(rest)[3] = <<"a", "l", "i", "a", "s", " ">> \o name \o <<"=", "'">> \o command \o <<"'">>

C25_Appended ==
    [][(call'.op = "append_alias" /\ call'.result[1].ok /\ home' # home) =>
          /\ home.rc # None
          /\ home'.rc # None
          /\ AppendedTo(home.rc[1], home'.rc[1], call'.name, call'.command)
          /\ call'.result[1].backup # None
          /\ \E b \in home'.backups :
                /\ b.name = call'.result[1].backup[1]
                /\ b.content = home.rc[1]
                /\ \A other \in home'.backups : other.name = b.name => other = b]_vars

C25_Witness ==
    /\ call.op = "append_alias"
    /\ call.result[1].ok
    /\ call.name = <<"l", "l">>
    /\ home.rc = Some(<<"a", "l", "i", "a", "s", " ", "l", "l", "x", "=", "'", "l", "s", "'">> \o <<"\n", "\n">> \o <<"#", " ", "A", "d", "d", "e", "d", " ", "b", "y", " ", "m", "o", "d", "e">>
                      \o <<" ", "o", "n", " ", "2", "0", "2", "5", "-", "0", "1", "-", "0", "1", " ", "0", "0", ":", "0", "0", ":", "0", "1">> \o <<"\n">> \o <<"a", "l", "i", "a", "s", " ", "l", "l", "=", "'", "l", "s", "'">> \o <<"\n">>)
    /\ home.backups = {[name |-> [timestamp |-> 0], content |-> <<"a", "l", "i", "a", "s", " ", "l", "l", "x", "=", "'", "l", "s", "'">>]}

\* C26 as stated: at every point of a scan the progress of the Scanning state
\* is the number of port attempts that have completed, so it is k - 1 while
\* the k-th port is probed.
C26_Original ==
    (state.tag = "Scanning" /\ pc \in {"loop", "probe"}) => state.progress = scan.idx

\* C27 as stated: in a scan whose target was resolved every port of the port
\* set gets exactly one connection attempt, in the order of the port set, so
\* that the attempts of the whole scan are as many as the total of the progress.
C27_Original ==
    /\ [][pc = "probe" =>
            /\ net'.connects = net.connects + 1
            /\ net'.last = scan.ports[scan.idx + 1]]_vars
    /\ []((pc = "return" /\ scan.result = "ok") =>
            /\ net.connects = Len(scan.ports)
            /\ net.connects = state.total)

\* C28 as stated: when probing succeeds and saving the report fails, the open
\* ports that were found are still available to the caller after execute_scan
\* has returned, that is, in the state of the Scanner.
C28_Original ==
    (pc = "idle" /\ scan.result = "ok" /\ state.tag = "Error"
     /\ scan.open_ports # <<>>) =>
        /\ "open_ports" \in DOMAIN state
        /\ state.open_ports = scan.open_ports

\* the lines of a report for the open ports of the scan: one per open port, in
\* the order of the result, with the service name or "unknown"
ListsOpenPorts(f) ==
    /\ Len(f.lines) = Len(scan.open_ports)
    /\ \A i \in 1..Len(f.lines) :
          /\ f.lines[i].port = scan.open_ports[i].port
          /\ f.lines[i].service = IF scan.open_ports[i].service = None THEN "unknown"
                                  ELSE scan.open_ports[i].service[1]

\* C29 as stated: after a scan a report file has been written if and only if
\* save_to_file is on and probing succeeded; with save_to_file off there is no
\* file, with it on there is exactly one, also when no port is open, and it
\* has one line per open port.
C29_Original ==
    (pc = "idle" /\ scan.result # "none") =>
        /\ files # {} <=> (scan.entry.save_to_file /\ scan.result = "ok")
        /\ (scan.entry.save_to_file /\ scan.result = "ok") =>
              /\ Cardinality(files) = 1
              /\ \A f \in files : f.complete /\ ListsOpenPorts(f)

\* C29, amended: no file is created with save_to_file off or when probing
\* failed; with save_to_file on and probing succeeded one report is saved, also
\* when no port is open: if creating and writing the file succeed the scan ends
\* in ViewingResults or Success with exactly one complete file that has one
\* line per open port; otherwise it ends in Error with no file (the creation
\* failed) or one incomplete file (a write failed).
C29_Report ==
    (pc = "idle" /\ scan.result # "none") =>
        /\ (~scan.entry.save_to_file \/ scan.result = "err") => files = {}
        /\ (scan.entry.save_to_file /\ scan.result = "ok") =>
              IF state.tag = "Error"
              THEN /\ Cardinality(files) <= 1
                   /\ \A f \in files : ~f.complete
              ELSE /\ state.tag \in {"ViewingResults", "Success"}
                   /\ Cardinality(files) = 1
                   /\ \A f \in files :
                         /\ f.complete
                         /\ f.target = scan.entry.target
                         /\ ListsOpenPorts(f)

C29_Witness ==
    /\ pc = "idle"
    /\ scan.result = "ok"
    /\ scan.entry.save_to_file
    /\ state.tag = "Success"
    /\ scan.open_ports = <<>>
    /\ Cardinality(files) = 1
    /\ \A f \in files : f.complete /\ f.lines = <<>>

\* C30 as stated: get_ports of StandardScan gives 100 distinct port numbers,
\* and the port count of the confirmation data and the total of the scan are
\* 100 for a StandardScan.
C30_Original ==
    /\ Len(get_ports("StandardScan")) = 100
    /\ Cardinality(Range(get_ports("StandardScan"))) = 100
    /\ (state.tag = "Confirming" /\ state.scan_type = "StandardScan") =>
          port_count(state) = 100
    /\ (state.tag = "Scanning" /\ state.scan_type = "StandardScan") =>
          state.total = 100

\* C32: go_back returns to the step before with the earlier choice kept: from
\* EnteringTarget to SelectingScanType with the cursor on the chosen scan type,
\* so that confirm_scan_type followed by go_back restores the SelectingScanType
\* state; from Confirming to SelectingOptions with the same scan type, target,
\* custom ports and option values and the cursor on 0, so that confirming
\* again gives the same Confirming state.
C32_BackKeepsChoice ==
    /\ [][(state.tag = "EnteringTarget" /\ state'.tag = "SelectingScanType") =>
            /\ ScanTypeAll[state'.selected + 1] = state.scan_type
            /\ confirm_scan_type(state').scan_type = state.scan_type]_vars
    /\ [](state.tag = "SelectingScanType" => go_back(confirm_scan_type(state)) = state)
    /\ [][(state.tag = "Confirming" /\ state'.tag = "SelectingOptions") =>
            /\ state' = SelectingOptions(state.scan_type, state.target, 0,
                                         state.service_detection, state.save_to_file,
                                         state.custom_ports)
            /\ advance_to_confirmation(state') = state]_vars
    /\ [](state.tag = "Confirming" => advance_to_confirmation(go_back(state)) = state)

C32_Witness ==
    /\ state.tag = "SelectingScanType"
    /\ state.selected = 3
    /\ pc = "idle"

\* C33: append_alias is atomic for the RC file.  The backup is written while
\* the RC file is as it was; the new content goes to the temporary file, and
\* the RC file changes in one step only, the rename, which gives it the
\* complete new content while the backup holds the old one; when append_alias
\* fails at any step the RC file holds exactly the content it had before the
\* call and no temporary file is left.  The steps together do what
\* append_alias does as one call.
C33_Atomic ==
    /\ [][home'.backups # home.backups =>
            /\ call.pc = "backup"
            /\ home'.rc = home.rc
            /\ home.rc = call.entry.rc]_vars
    /\ [][home'.rc # home.rc =>
            /\ call.pc = "persist"
            /\ call'.result[1].ok
            /\ home.temp = Some(call.current_content \o call.alias_entry)
            /\ home'.rc = home.temp
            /\ \E b \in home.backups :
                  b.name = call.backup[1] /\ b.content = home.rc[1]]_vars
    /\ [](home.temp # None => home.rc = call.entry.rc)
    /\ []((call.op = "append_alias" /\ call.pc = "done") =>
            /\ home.temp = None
            /\ ~call.result[1].ok => home.rc = call.entry.rc
            /\ \E outcome \in AppendOutcomes, backup_now \in 0..MaxClock :
                  \E entry_now \in backup_now..MaxClock :
                     LET r == append_alias(call.entry, call.name, call.command, outcome,
                                           backup_now, entry_now)
                     IN  /\ r.home = home
                         /\ r.ok = call.result[1].ok
                         /\ r.backup = call.result[1].backup)

C33_Witness ==
    /\ call.op = "append_alias"
    /\ call.pc = "done"
    /\ call.result[1].error = "FileOperation"
    /\ call.alias_entry # <<>>
    /\ home.rc = Some(<<"a", "l", "i", "a", "s", " ", "l", "l", "x", "=", "'", "l", "s", "'">>)
    /\ home.backups = {[name |-> [timestamp |-> 0], content |-> <<"a", "l", "i", "a", "s", " ", "l", "l", "x", "=", "'", "l", "s", "'">>]}
    /\ home.temp = None

\* C35: in SelectingOptions, Confirming and Scanning the custom ports are
\* present exactly when the scan type is CustomRange; they are then a non-empty
\* ascending list, the one parsed from the port-range expression that was
\* submitted last, and stay the same until the options are left; the ports
\* handed to the scan engine are never empty and the total of a scan is at
\* least 1.
C35_CustomPorts ==
    /\ [](HasOptions(state) =>
            /\ state.custom_ports # None <=> state.scan_type = "CustomRange"
            /\ state.custom_ports # None =>
                  /\ Len(state.custom_ports[1]) >= 1
                  /\ Ascending(state.custom_ports[1])
            /\ Len(PortsOf(state)) >= 1)
    /\ [][(state.tag = "EnteringPortRange" /\ state'.tag = "SelectingOptions") =>
            /\ parse_port_range(state.input).ok
            /\ state'.custom_ports = Some(parse_port_range(state.input).ports)]_vars
    /\ [][(HasOptions(state) /\ HasOptions(state')) =>
            state'.custom_ports = state.custom_ports]_vars
    /\ [](state.tag = "Scanning" =>
            /\ scan.ports = PortsOf(state)
            /\ Len(scan.ports) >= 1
            /\ state.total = Len(scan.ports)
            /\ state.total >= 1)

C35_Witness ==
    /\ state.tag = "Scanning"
    /\ state.scan_type = "CustomRange"
    /\ state.custom_ports = Some(<<1, 2>>)
    /\ state.total = 2
    /\ scan.idx = 1

\* C36: in every state that carries a target (EnteringPortRange,
\* SelectingOptions, Confirming, Scanning) the target is not empty, has no
\* whitespace at either end and passes validate_target, whatever was typed,
\* submitted or left by back before; a lookup or a connection is made only for
\* such a target.
ValidTarget(t) ==
    /\ Len(t) > 0
    /\ ~IsWhitespace(t[1])
    /\ ~IsWhitespace(t[Len(t)])
    /\ validate_target(t).ok

C36_TargetValidated ==
    /\ [](state.tag \in {"EnteringPortRange", "SelectingOptions", "Confirming",
                         "Scanning"} => ValidTarget(state.target))
    /\ [](pc # "idle" => ValidTarget(scan.entry.target) /\ state.target = scan.entry.target)
    /\ [][(net'.lookups # net.lookups \/ net'.connects # net.connects) =>
            ValidTarget(state.target)]_vars

C36_Witness ==
    /\ state.tag = "Scanning"
    /\ state.target = <<"a", "-", "a">>
    /\ net.lookups = 1
    /\ net.connects = 3

\* C37 as stated: connections are tried and report files written only inside
\* execute_scan called in Confirming, and the call does nothing in any other
\* state; the target, the options and the number of ports probed are those
\* that get_confirmation_data reported in that Confirming state.
C37_Original ==
    /\ [][(net' # net \/ files' # files) =>
            /\ pc # "idle"
            /\ scan.entry.tag = "Confirming"]_vars
    /\ [][(pc = "idle" /\ state.tag # "Confirming") =>
            (pc' = "idle" /\ net' = net /\ files' = files)]_vars
    /\ [](pc # "idle" =>
            LET data == get_confirmation_data(scan.entry)[1]
            IN  /\ data.target = state.target
                /\ data.service_detection = "Enabled" <=> state.service_detection
                /\ data.save_to_file = "Yes" <=> state.save_to_file
                /\ data.ports = state.total)
    /\ []((pc = "return" /\ scan.result = "ok") =>
            net.connects = get_confirmation_data(scan.entry)[1].ports)
    /\ [](\A f \in files : f.target = scan.entry.target)


\* the feature that a menu item opens
FeatureOf(item) == IF item = "Bookmark" THEN "BookmarkManager" ELSE item

\* Enter is handled in the main menu
EnterInMenu == call'.op = "handle_key" /\ call'.key.code = "Enter" /\ app.state.tag = "MainMenu"

\* C31: in the main menu, Enter on an item whose is_active() is true moves the
\* app to FeatureActive with the feature of the item or records an
\* initialization error message, and Enter on an inactive item opens the
\* Placeholder feature with the name of the item.
C31_Original ==
    [][EnterInMenu =>
         LET item == selected_item(app.menu_state)
         IN  IF is_active(item)
             THEN \/ /\ app'.state.tag = "FeatureActive"
                     /\ app'.state.feature.tag = FeatureOf(item)
                  \/ /\ app'.error_message # None
                     /\ app'.error_message[1][1] = "Failed to initialize"
             ELSE app'.state =
                     FeatureActive(ActiveFeature("Placeholder",
                                                 PlaceholderFeature_new(MenuItemName(item))))]_vars

\* a kill action is executed in the step
Executes == procs' # procs

\* the manager of the active feature
Manager == app.state.feature.manager

\* C34: a kill action is executed only by the answer yes in Confirming, the
\* action executed is the confirmed one, once, and the manager is then in
\* Success or Error; no or Esc in Confirming returns to SelectingAction and
\* Esc in SelectingAction to the main menu, both without executing anything;
\* the manager is never left in Processing.
C34_KillOnlyConfirmed ==
    /\ [][Executes =>
            /\ IsFeature("ProcessManager")
            /\ Manager.state.tag = "Confirming"
            /\ call'.op = "handle_key"
            /\ IsChar(call'.key, {"y", "Y"})
            /\ procs' = Append(procs, Manager.state.action)]_vars
    /\ [][(IsFeature("ProcessManager") /\ Manager.state.tag = "Confirming"
           /\ call'.op = "handle_key" /\ call' # call) =>
            IF IsChar(call'.key, {"y", "Y"})
            THEN /\ Executes
                 /\ app'.state.tag = "FeatureActive"
                 /\ app'.state.feature.manager.state.tag \in {"Success", "Error"}
            ELSE IF IsChar(call'.key, {"n", "N"}) \/ call'.key.code = "Esc"
            THEN /\ ~Executes
                 /\ app'.state = FeatureActive(ActiveFeature("ProcessManager",
                                                             ProcessManager_new))
            ELSE ~Executes /\ app' = app]_vars
    /\ [][(IsFeature("ProcessManager") /\ Manager.state.tag = "SelectingAction"
           /\ call'.op = "handle_key" /\ call'.key.code = "Esc" /\ call' # call) =>
            ~Executes /\ app'.state = MainMenu]_vars
    /\ [](IsFeature("ProcessManager") => Manager.state.tag # "Processing")

C34_Witness ==
    /\ IsFeature("ProcessManager")
    /\ Manager.state.tag \in {"Success", "Error"}
    /\ procs = <<"KillUnneededProcesses">>


\* the cursor of a list of n entries is on one of them, and next and previous
\* move it cyclically
Cyclic(selected, after_next, after_previous, n) ==
    /\ selected \in 0..(n - 1)
    /\ after_next = IF selected = n - 1 THEN 0 ELSE selected + 1
    /\ after_previous = IF selected = 0 THEN n - 1 ELSE selected - 1

\* C38: every selection cursor stays within its list: the scan-type cursor in
\* 0..3, the scan-option cursor in 0..1, the process-action cursor in 0..2 and
\* the main-menu cursor below the item count, so that the selected entry
\* exists; next and previous move cyclically and undo each other; and
\* MenuState::select with an out-of-range index leaves the selection as it is.
C38_CursorsInRange ==
    /\ state.tag = "SelectingScanType" =>
          /\ Cyclic(state.selected, next(state).selected, previous(state).selected, 4)
          /\ state.selected + 1 \in DOMAIN ScanTypeAll
          /\ previous(next(state)) = state /\ next(previous(state)) = state
    /\ state.tag = "SelectingOptions" =>
          /\ Cyclic(state.selected, next(state).selected, previous(state).selected, 2)
          /\ state.selected + 1 \in DOMAIN ScanOptionAll
          /\ previous(next(state)) = state /\ next(previous(state)) = state
    /\ (IsFeature("ProcessManager") /\ Manager.state.tag = "SelectingAction") =>
          /\ Cyclic(Manager.state.selected, ProcessManager_next(Manager).state.selected,
                    ProcessManager_previous(Manager).state.selected, 3)
          /\ Manager.state.selected + 1 \in DOMAIN ProcessActionAll
          /\ ProcessManager_previous(ProcessManager_next(Manager)) = Manager
          /\ ProcessManager_next(ProcessManager_previous(Manager)) = Manager
    /\ LET m == app.menu_state
       IN  /\ m.items_count = MenuItemCount
           /\ Cyclic(m.selected, MenuState_next(m).selected,
                     MenuState_previous(m).selected, m.items_count)
           /\ m.selected + 1 \in DOMAIN MenuItemAll
           /\ MenuState_previous(MenuState_next(m)) = m
           /\ MenuState_next(MenuState_previous(m)) = m
           /\ \A index \in 0..MaxSelectIndex :
                 select(m, index) = IF index < m.items_count
                                    THEN [m EXCEPT !.selected = index]
                                    ELSE m

C38_Witness ==
    /\ app.menu_state.selected = MenuItemCount - 1
    /\ IsFeature("ProcessManager")
    /\ Manager.state = PM_SelectingAction(2)
    /\ state.tag = "SelectingOptions"
    /\ state.selected = 1


\* the steps that follow a step of the alias wizard
AfterAdvance(tag) ==
    CASE tag = "EnteringName" -> {"EnteringCommand", "Error"}
      [] tag = "EnteringCommand" -> {"Confirming", "Error"}
      [] tag = "Confirming" -> {"Success", "Error"}

\* C39: for every AliasManager, initialized or not, advance() from
\* EnteringName, EnteringCommand or Confirming moves the wizard to the next
\* step, to Success or to Error: it never leaves the manager in Processing and
\* never leaves a name in EnteringName.
C39_Original ==
    [][(call'.op = "advance"
        /\ Manager.state.tag \in {"EnteringName", "EnteringCommand", "Confirming"}) =>
          app'.state.feature.manager.state.tag \in AfterAdvance(Manager.state.tag)]_vars


\* one sequence is the beginning of the other
IsPrefix(a, b) == Len(a) <= Len(b) /\ SubSeq(b, 1, Len(a)) = a

\* the events of the terminal that have been handled, then those that wait
\* in the channel
Delivered == events.handled \o Terminal(events.chan)

\* C40: the terminal events read by the event thread reach the application
\* through the channel in the order they were read, and each of them is
\* handled exactly once by the main loop: at any time the events handled,
\* followed by those that wait in the channel, are the events read.
C40_Original == Delivered = events.read

\* C40, amended: the handled and the waiting events are a beginning of the
\* events read, in their order and without repetition, and all of them while
\* the receiver is alive; the app changes only in a turn of the main loop,
\* which takes the first event of the channel, a key, and handles that one
\* event; an event is handled only by that turn; and once the receiver is
\* dropped nothing is queued or handled any more and the thread stops at the
\* next event it has to send, and stays stopped.
C40_Events ==
    /\ [](IsPrefix(Delivered, events.read))
    /\ [](events.rx = "open" => Delivered = events.read)
    /\ [][app' # app =>
            /\ events.rx = "open"
            /\ events.chan # <<>>
            /\ Head(events.chan).kind = "Key"
            /\ call' = HandleKeyCall(Head(events.chan).key)
            /\ events'.handled = Append(events.handled, Head(events.chan))]_vars
    /\ [][events'.handled # events.handled =>
            /\ events.rx = "open"
            /\ events.chan # <<>>
            /\ events'.handled = Append(events.handled, Head(events.chan))
            /\ events'.chan \in {Tail(events.chan), <<>>}]_vars
    /\ [][events.rx = "dropped" =>
            /\ events'.rx = "dropped"
            /\ events'.chan = events.chan
            /\ events'.handled = events.handled
            /\ app' = app
            /\ events'.read # events.read => events'.thread = "stopped"]_vars
    /\ [][events.thread = "stopped" =>
            events'.thread = "stopped" /\ events'.read = events.read]_vars

\* the app has quit with two events handled and the thread has stopped at an
\* event that it could not send
C40_Witness ==
    /\ events.thread = "stopped"
    /\ events.rx = "dropped"
    /\ Len(events.handled) >= 2
    /\ Len(events.read) > Len(events.handled)

====
